---- MODULE Spec2Model ----
(***************************************************************************)
(* litesim: a discrete-event simulation kernel.                            *)
(*                                                                         *)
(* The module models, from the Rust sources,                               *)
(*   - the model store with its taken-flag borrow (system.rs),             *)
(*   - the system model, its route table and validate() (system.rs),       *)
(*   - the typed event and its erased envelope (event.rs),                 *)
(*   - the scheduler and the driver Simulation::new / run_until            *)
(*     with the context calls open to a running handler (simulation.rs).   *)
(* Each component has its own specification over the shared variables:     *)
(* SpecStore, SpecSys, SpecEvent and Spec (the simulation driver).         *)
(***************************************************************************)
EXTENDS Integers, Sequences, FiniteSets, TLC

VARIABLES
    \* SystemModel (system.rs:16-21) and its ModelStore (system.rs:211-213)
    models,       \* ModelStore.data: id -> the class of the boxed model, or NoModel
    taken,        \* ModelSlot.taken, per id
    routes,       \* SystemModel.routes: origin path -> destination path, or NoPath
    validated,    \* SystemModel.validated
    route_cache,  \* SystemModel.route_cache: id -> AdjacentModels, or NoAdj
    vres,         \* the value validate() returned, if it was the last call on the system
    vskip,        \* the last call was a validate() that found the system validated
    \* outstanding BorrowedModel guards (system.rs:306-310)
    guards,       \* id -> number of live guards whose owner is the slot of id
    bres,         \* the value returned by the last store call
    \* events (event.rs)
    heap,         \* allocation -> [st, ty, val]: the boxed payloads
    events,       \* the live typed events Event<M>
    envelopes,    \* the live erased envelopes ErasedEvent
    evres,        \* the value returned by the last event call
    \* sample models (crates/litesim_models)
    queue,        \* id -> Queue.queue: the payloads held, front first
    \* Scheduler (simulation.rs:359-362) and driver (simulation.rs:20-25)
    time,         \* Scheduler.time
    scheduled,    \* Scheduler.scheduled: time -> bucket (<<>>: no such key)
    initial_time, \* Simulation.initial_time
    pc,           \* where the driver is
    max_time,     \* the argument of the running run_until
    bucket,       \* the entries of the popped bucket not yet iterated
    initq,        \* the models Simulation::new has still to initialise
    inits,        \* id -> number of calls of init on the model (history)
    ctx,          \* the SimulationCtx of the running callback, or NoCtx
    simres,       \* the value returned by the last driver call
    call,         \* the scheduling call made by the last step, and its result
    nextSeq,      \* number of entries scheduled so far (history)
    log,          \* the entries dispatched so far, in order (history)
    hret,         \* the value returned by the callback that ended in the last step
    snap          \* the client's position in a sequence of run_until calls, and what it
                  \* saw of the simulation at the start and at the end of the sequence

sysVars   == <<models, routes, validated, route_cache, vres, vskip>>
storeVars == <<taken, guards, bres>>
evVars    == <<heap, events, envelopes, evres, queue>>
simVars   == <<time, scheduled, initial_time, pc, max_time, bucket, initq, inits, ctx,
               simres, call, nextSeq, log, hret, snap>>
vars      == <<sysVars, storeVars, evVars, simVars>>

(***************************************************************************)
(* Bounds of the model.                                                    *)
(***************************************************************************)
MaxTime    == 1   \* simulated instants are 0..MaxTime
MaxEntries == 3   \* entries scheduled in one behaviour
MaxRoutes  == 2   \* routes held by a system under construction
MaxCancelTime    == 4   \* instants 0..MaxCancelTime of the bare scheduler
MaxCancelEntries == 4   \* entries scheduled on the bare scheduler in one behaviour
MaxPlayTime      == 21  \* tenths of a time unit explored by the ping-pong runs
MaxPlayEntries   == 3   \* entries scheduled in one ping-pong run
MaxQueueTime     == 2   \* instants 0..MaxQueueTime of the runs of the Queue
MaxQueueEntries  == 9   \* entries scheduled in one run of the Queue
MaxSplitTime == 4     \* instants of the simulations run in two calls and in one: 0..MaxSplitTime
MaxSplitEntries == 3  \* entries scheduled in one such simulation
MaxLiveTime == 3      \* greatest bound of a run_until whose return is awaited
MaxAllocs  == 2   \* payload allocations in one behaviour

Times   == 0 .. MaxTime
NoTime  == 0 - 1

(***************************************************************************)
(* Identifiers, connector paths and the model contract.                    *)
(***************************************************************************)
ModelIds == {"p1", "p2"}           \* ids given to push_model
AllIds   == ModelIds \cup {"p3"}   \* p3 is never registered
NoModel  == "none"

ConnectorPath(m, c) == [model |-> m, connector |-> c]
NoPath == ConnectorPath("", "")

\* The model types used as inputs: the example Player, the sample Queue and
\* Cloner (two outputs), and Mispaired, a hand-written model whose only input
\* handler is declared for another model type.
Classes == {"Player", "Queue", "Cloner", "Mispaired"}

InputConnector(n, t, h) == [name |-> n, ty |-> t, hmodel |-> h]
OutputConnectorInfo(n, t) == [name |-> n, ty |-> t]

input_connectors(c) ==
    CASE c = "Player"    -> << InputConnector("receive", "Sig", "Player") >>
      [] c = "Queue"     -> << InputConnector("in", "Int", "Queue"),
                               InputConnector("pop", "Sig", "Queue") >>
      [] c = "Cloner"    -> << InputConnector("input", "Int", "Cloner") >>
      [] c = "Mispaired" -> << InputConnector("in", "Int", "Queue") >>
      [] OTHER           -> << >>

output_connectors(c) ==
    CASE c = "Player"    -> << OutputConnectorInfo("send", "Sig") >>
      [] c = "Queue"     -> << OutputConnectorInfo("out", "Int") >>
      [] c = "Cloner"    -> << OutputConnectorInfo("output_0", "Int"),
                               OutputConnectorInfo("output_1", "Int") >>
      [] OTHER           -> << >>

NoType == "?"

\* ModelImpl::output_type_id: the payload type of the named output, if declared
output_type_id(c, name) ==
    LET hit == {i \in DOMAIN output_connectors(c) : output_connectors(c)[i].name = name}
    IN  IF hit = {} THEN NoType ELSE output_connectors(c)[CHOOSE i \in hit : TRUE].ty

\* ModelImpl::input_type_id: the payload type of the named input, if declared
input_type_id(c, name) ==
    LET hit == {i \in DOMAIN input_connectors(c) : input_connectors(c)[i].name = name}
    IN  IF hit = {} THEN NoType ELSE input_connectors(c)[CHOOSE i \in hit : TRUE].ty

\* Model::type_id: the model's own type
type_id(c) == c

(***************************************************************************)
(* Errors (error.rs).  One record shape for every returned value.          *)
(***************************************************************************)
Res(k, m, c, cur, ins) ==
    [kind |-> k, model |-> m, connector |-> c, current |-> cur, insertion |-> ins]
Ok == Res("Ok", "", "", NoTime, NoTime)
NoRes == Res("-", "", "", NoTime, NoTime)
MissingModel(id) == Res("MissingModel", id, "", NoTime, NoTime)
MissingConnector(m, id) == Res("MissingConnector", m, id, NoTime, NoTime)
ConnectionTypeMismatch(a, b) ==
    Res("ConnectionTypeMismatch", a.model, a.connector, NoTime, NoTime)
InvalidConnectorModel(c) == Res("InvalidConnectorModel", "", c, NoTime, NoTime)
RepeatedOutput(c) == Res("RepeatedOutput", "", c, NoTime, NoTime)
ModelMissing == Res("ModelMissing", "", "", NoTime, NoTime)
SlotOccupied == Res("SlotOccupied", "", "", NoTime, NoTime)
TimeRegression(cur, ins) == Res("TimeRegression", "", "", cur, ins)
ModelNotFound(id) == Res("ModelNotFound", id, "", NoTime, NoTime)
UnknownModelConnector(m, c) == Res("UnknownModelConnector", m, c, NoTime, NoTime)
InvalidEventType == Res("InvalidEventType", "", "", NoTime, NoTime)
MissingEventTarget(m) == Res("MissingEventTarget", m, "", NoTime, NoTime)

(***************************************************************************)
(* ModelSlot and ModelStore (system.rs:170-281).                           *)
(***************************************************************************)
\* a take that does not look at the flag
SlotTakeNoCheck(tk) == [res |-> Ok, taken |-> TRUE]

\* ModelSlot::take: a taken slot refuses, a free slot becomes taken
SlotTake(tk) ==
    IF tk THEN [res |-> ModelMissing, taken |-> tk]
          ELSE [res |-> Ok, taken |-> TRUE]

\* variant: a release that leaves the slot taken
KeepTaken(tk) == [res |-> Ok, taken |-> tk]

\* variant: a release that does not look at the flag
ReleaseNoCheck(tk) == [res |-> Ok, taken |-> FALSE]

\* ModelSlot::release: a free slot refuses, a taken slot becomes free
SlotRelease(tk) ==
    IF ~tk THEN [res |-> SlotOccupied, taken |-> tk]
           ELSE [res |-> Ok, taken |-> FALSE]

\* ModelStore::borrow, through BorrowedModel::new: Ok(None) for an unknown id,
\* else the outcome of take() on the slot
StoreBorrow(mods, tkn, id) ==
    IF mods[id] = NoModel
    THEN [found |-> FALSE, res |-> Ok, taken |-> tkn]
    ELSE LET t == SlotTake(tkn[id])
         IN  [found |-> TRUE, res |-> t.res, taken |-> [tkn EXCEPT ![id] = t.taken]]

\* ModelStore::borrow called by crate code
Borrow(id) ==
    LET b == StoreBorrow(models, taken, id)
    IN  /\ taken' = b.taken
        /\ guards' = IF b.found /\ b.res = Ok
                     THEN [guards EXCEPT ![id] = @ + 1] ELSE guards
        /\ bres' = [op |-> "borrow", id |-> id, found |-> b.found, res |-> b.res]
        /\ UNCHANGED <<sysVars, evVars, simVars>>

\* Drop for BorrowedModel: releases the slot the guard owns
DropGuard(id) ==
    /\ guards[id] > 0
    /\ LET r == SlotRelease(taken[id])
       IN  /\ taken' = [taken EXCEPT ![id] = r.taken]
           /\ bres' = [op |-> "drop", id |-> id, found |-> TRUE, res |-> r.res]
    /\ guards' = [guards EXCEPT ![id] = @ - 1]
    /\ UNCHANGED <<sysVars, evVars, simVars>>

\* ModelSlot::release called by crate code on a slot that no guard owns
Release(id) ==
    /\ models[id] # NoModel
    /\ guards[id] = 0
    /\ LET r == SlotRelease(taken[id])
       IN  /\ taken' = [taken EXCEPT ![id] = r.taken]
           /\ bres' = [op |-> "release", id |-> id, found |-> TRUE, res |-> r.res]
    /\ UNCHANGED <<guards, sysVars, evVars, simVars>>

(***************************************************************************)
(* SystemModel (system.rs:29-141) and routes (routes.rs).                  *)
(***************************************************************************)
Route(a, b) == [from |-> a, to |-> b]

\* the connector paths that may be the key of a route
Origins == {ConnectorPath("p1", "send"), ConnectorPath("p1", "out"),
            ConnectorPath("p2", "send"), ConnectorPath("p1", "output_0"),
            ConnectorPath("p1", "output_1")}

\* SystemModel::routes: the route table as a set of Route values
RouteSet(rts) == {Route(a, rts[a]) : a \in {x \in DOMAIN rts : rts[x] # NoPath}}

\* variant: a route that ends in every model
EndsAnywhere(r, id) == TRUE

\* Route::ends_in_model, Route::starts_in_model
ends_in_model(r, id) == r.to.model = id
starts_in_model(r, id) == r.from.model = id

\* SystemModel::push_model
PushModel(id, c) ==
    /\ models' = [models EXCEPT ![id] = c]
    /\ taken' = [taken EXCEPT ![id] = FALSE]
    /\ validated' = FALSE
    /\ vres' = NoRes
    /\ vskip' = FALSE
    /\ UNCHANGED <<routes, route_cache, guards, bres, evVars, simVars>>

\* a push_route that leaves the validated flag as it is
PushRouteKeepsFlag(a, b) ==
    /\ routes[a] # NoPath \/ Cardinality(RouteSet(routes)) < MaxRoutes
    /\ routes' = [routes EXCEPT ![a] = b]
    /\ vres' = NoRes
    /\ vskip' = FALSE
    /\ UNCHANGED <<models, validated, route_cache, storeVars, evVars, simVars>>

\* SystemModel::push_route
PushRoute(a, b) ==
    /\ routes[a] # NoPath \/ Cardinality(RouteSet(routes)) < MaxRoutes
    /\ routes' = [routes EXCEPT ![a] = b]
    /\ validated' = FALSE
    /\ vres' = NoRes
    /\ vskip' = FALSE
    /\ UNCHANGED <<models, route_cache, storeVars, evVars, simVars>>

\* the first input handler of a model declared for another model type (0: none)
FirstMismatched(c) ==
    LET ins == input_connectors(c)
        bad == {i \in DOMAIN ins : ins[i].hmodel # type_id(c)}
    IN  IF bad = {} THEN 0 ELSE CHOOSE i \in bad : \A j \in bad : i <= j

\* the checks on a route without the comparison of the two payload types
RouteCheckUntyped(mods, tkn, a, b) ==
    LET ba == StoreBorrow(mods, tkn, a.model)
        bb == StoreBorrow(mods, ba.taken, b.model)
    IN  IF ba.res # Ok THEN ba.res
        ELSE IF ~ba.found THEN MissingModel(a.model)
        ELSE IF bb.res # Ok THEN bb.res
        ELSE IF ~bb.found THEN MissingModel(b.model)
        ELSE IF output_type_id(mods[a.model], a.connector) = NoType
             THEN MissingConnector(a.model, a.connector)
        ELSE IF input_type_id(mods[b.model], b.connector) = NoType
             THEN MissingConnector(b.model, b.connector)
        ELSE IF FirstMismatched(mods[b.model]) # 0
             THEN InvalidConnectorModel(
                    input_connectors(mods[b.model])[FirstMismatched(mods[b.model])].name)
        ELSE Ok

\* the checks validate() makes on one route (a, b), in the order of the code;
\* the two borrows are held together until the end of the iteration
RouteCheck(mods, tkn, a, b) ==
    LET ba == StoreBorrow(mods, tkn, a.model)
        bb == StoreBorrow(mods, ba.taken, b.model)
        output_type == output_type_id(mods[a.model], a.connector)
        input_type == input_type_id(mods[b.model], b.connector)
        found_i == FirstMismatched(mods[b.model])
    IN  IF ba.res # Ok THEN ba.res
        ELSE IF ~ba.found THEN MissingModel(a.model)
        ELSE IF bb.res # Ok THEN bb.res
        ELSE IF ~bb.found THEN MissingModel(b.model)
        ELSE IF output_type = NoType THEN MissingConnector(a.model, a.connector)
        ELSE IF input_type = NoType THEN MissingConnector(b.model, b.connector)
        ELSE IF input_type # output_type THEN ConnectionTypeMismatch(a, b)
        ELSE IF found_i # 0
             THEN InvalidConnectorModel(input_connectors(mods[b.model])[found_i].name)
        ELSE Ok

\* AdjacentModels of one model, as cache_connections builds it: a route that
\* ends in the model is an input, any other route that starts in it an output
NoAdj == [present |-> FALSE, inputs |-> {}, outputs |-> {}]
Adjacent(rts, id) ==
    LET inputs == {r \in RouteSet(rts) : ends_in_model(r, id)}
        outputs == {r \in RouteSet(rts) : ~ends_in_model(r, id) /\ starts_in_model(r, id)}
    IN  [present |-> TRUE, inputs |-> inputs, outputs |-> outputs]

\* an origin connector met twice while the outputs of id are collected
Repeated(rts, id) ==
    LET outs == Adjacent(rts, id).outputs
    IN  {r.from.connector : r \in {x \in outs :
            \E y \in outs : y # x /\ y.from.connector = x.from.connector}}

\* a cache_connections that does not clear the cache, adding to the entries
\* it finds there
MergeCache(mods, rts) ==
    [res |-> Ok,
     cache |-> [id \in DOMAIN mods |->
                  IF mods[id] = NoModel THEN route_cache[id]
                  ELSE [present |-> TRUE,
                        inputs |-> route_cache[id].inputs \cup Adjacent(rts, id).inputs,
                        outputs |-> route_cache[id].outputs \cup Adjacent(rts, id).outputs]]]

\* SystemModel::cache_connections
cache_connections(mods, rts) ==
    LET ids == {id \in DOMAIN mods : mods[id] # NoModel}
        rep == {id \in ids : Repeated(rts, id) # {}}
    IN  IF rep # {}
        THEN [res |-> RepeatedOutput(CHOOSE c \in Repeated(rts, CHOOSE id \in rep : TRUE) : TRUE),
              cache |-> [id \in DOMAIN mods |-> NoAdj]]
        ELSE [res |-> Ok,
              cache |-> [id \in DOMAIN mods |->
                            IF id \in ids THEN Adjacent(rts, id) ELSE NoAdj]]

\* SystemModel::validate.  The routes are a HashMap, iterated in an order the
\* program does not fix: the error returned is that of the route met first,
\* which may be any of the routes that fail.
Failing(mods, tkn, rts) ==
    {r \in RouteSet(rts) : RouteCheck(mods, tkn, r.from, r.to) # Ok}

\* variant: a validate that sets the flag before it checks the routes
ValidateFlagFirst(mods, tkn, rts, val, cache) ==
    IF val
    THEN {[res |-> Ok, validated |-> val, cache |-> cache]}
    ELSE IF Failing(mods, tkn, rts) # {}
    THEN {[res |-> RouteCheck(mods, tkn, r.from, r.to), validated |-> TRUE, cache |-> cache]
            : r \in Failing(mods, tkn, rts)}
    ELSE LET cc == cache_connections(mods, rts)
         IN  {[res |-> cc.res, validated |-> TRUE, cache |-> cc.cache]}

ValidateOutcomes(mods, tkn, rts, val, cache) ==
    IF val
    THEN {[res |-> Ok, validated |-> val, cache |-> cache]}
    ELSE IF Failing(mods, tkn, rts) # {}
    THEN {[res |-> RouteCheck(mods, tkn, r.from, r.to), validated |-> val, cache |-> cache]
            : r \in Failing(mods, tkn, rts)}
    ELSE LET cc == cache_connections(mods, rts)
         IN  {[res |-> cc.res, validated |-> TRUE, cache |-> cc.cache]}

Validate ==
    /\ \E o \in ValidateOutcomes(models, taken, routes, validated, route_cache) :
          /\ vres' = o.res
          /\ validated' = o.validated
          /\ route_cache' = o.cache
    /\ vskip' = validated
    /\ UNCHANGED <<models, routes, storeVars, evVars, simVars>>

(***************************************************************************)
(* Event<M> and ErasedEvent (event.rs:17-71).                              *)
(* A payload lives in a heap allocation owned by the Pin<Box<M>> of its    *)
(* event.  An envelope holds a raw pointer to the place of that box.       *)
(***************************************************************************)
Types    == {"Sig", "Int"}
Payloads == {7, 8}
Allocs   == 1 .. MaxAllocs
Wild     == MaxAllocs + 1           \* bits that are no allocation of the program

FreeCell == [st |-> "free", ty |-> NoType, val |-> 0]

\* Event::new: boxes the payload
MkEvent(ty, h) == [type_info |-> ty, data |-> h]

EventNew(ty, v) ==
    /\ \E h \in {x \in Allocs : heap[x].st = "free"} :
          /\ heap' = [heap EXCEPT ![h] = [st |-> "live", ty |-> ty, val |-> v]]
          /\ events' = events \cup {MkEvent(ty, h)}
          /\ evres' = [op |-> "new", ok |-> TRUE, asked |-> ty, data |-> h,
                       live |-> TRUE, val |-> v, env |-> {}]
    /\ UNCHANGED <<envelopes, queue, sysVars, storeVars, simVars>>

\* Event::erase_message_type.  `data` is the address of the field self.data of
\* the by-value parameter; self is not forgotten, so it is dropped when the
\* function returns: its box is freed and the place `data` points to is dead.
erase_message_type(e, v) ==
    [type_id |-> e.type_info, type_name |-> e.type_info,
     data |-> [place |-> e.data, dead |-> TRUE],
     orig |-> [box |-> e.data, val |-> v], failed |-> FALSE]

\* what dropping a Pin<Box<M>> that holds h does to the heap
FreeBox(hp, h) ==
    IF h \in Allocs
    THEN [hp EXCEPT ![h].st = IF @ = "live" THEN "freed" ELSE "double-freed"]
    ELSE hp

ValOf(hp, h) == IF h \in Allocs THEN hp[h].val ELSE 0
IsLive(hp, h) == h \in Allocs /\ hp[h].st = "live"

Erase(e) ==
    /\ e \in events
    /\ events' = events \ {e}
    /\ envelopes' = envelopes \cup {erase_message_type(e, ValOf(heap, e.data))}
    /\ heap' = FreeBox(heap, e.data)
    /\ evres' = [op |-> "erase", ok |-> TRUE, asked |-> e.type_info, data |-> e.data,
                 live |-> FALSE, val |-> ValOf(heap, e.data), env |-> {}]
    /\ UNCHANGED <<queue, sysVars, storeVars, simVars>>

\* std::ptr::read(data): a live place yields the box it holds; reading a dead
\* place is undefined, and yields the stale box or any other bits
PtrRead(d) == IF d.dead THEN Allocs \cup {Wild} ELSE {d.place}

\* the fields of an envelope the program can see
Visible(env) == [type_id |-> env.type_id, type_name |-> env.type_name, data |-> env.data]

\* ErasedEvent::try_restore_type::<N>
Restore(env, N) ==
    /\ env \in envelopes
    /\ IF env.type_id = N
       THEN \E h \in PtrRead(env.data) :
              /\ envelopes' = envelopes \ {env}
              /\ events' = events \cup {MkEvent(env.type_id, h)}
              /\ evres' = [op |-> "restore", ok |-> TRUE, asked |-> N, data |-> h,
                           live |-> IsLive(heap, h), val |-> ValOf(heap, h),
                           env |-> {env}]
       ELSE /\ envelopes' = (envelopes \ {env}) \cup {[env EXCEPT !.failed = TRUE]}
            /\ events' = events
            /\ evres' = [op |-> "restore", ok |-> FALSE, asked |-> N, data |-> Wild,
                         live |-> FALSE, val |-> 0,
                         env |-> {[env EXCEPT !.failed = TRUE]}]
    /\ UNCHANGED <<heap, queue, sysVars, storeVars, simVars>>

\* an Event<M> goes out of scope: its box is freed (a second time, if the
\* allocation is not live any more)
DropEvent(e) ==
    /\ e \in events
    /\ events' = events \ {e}
    /\ heap' = FreeBox(heap, e.data)
    /\ evres' = [op |-> "drop", ok |-> IsLive(heap, e.data), asked |-> e.type_info,
                 data |-> e.data, live |-> FALSE, val |-> 0, env |-> {}]
    /\ UNCHANGED <<envelopes, queue, sysVars, storeVars, simVars>>

(***************************************************************************)
(* TimeTrigger (time.rs:433-448).                                          *)
(***************************************************************************)
Now == [kind |-> "Now", v |-> 0]
Absolute(t) == [kind |-> "Absolute", v |-> t]
Relative(d) == [kind |-> "Relative", v |-> d]

Deltas == {0 - 1, 0, 1}
Triggers == {Now} \cup {Absolute(t) : t \in Times} \cup {Relative(d) : d \in Deltas}

\* TimeTrigger::to_discrete
to_discrete(tr, current) ==
    CASE tr.kind = "Now"      -> current
      [] tr.kind = "Absolute" -> tr.v
      [] tr.kind = "Relative" -> current + tr.v

(***************************************************************************)
(* Scheduler (simulation.rs:354-427).                                      *)
(* An entry carries, as history, the time it was scheduled at (at), its    *)
(* rank among the entries scheduled (seq) and the number of entries that   *)
(* had been dispatched when it was scheduled (after).                      *)
(***************************************************************************)
External == ConnectorPath("<external>", "")

\* Scheduled::Internal(model)
Internal(m, t, n, k) ==
    [kind |-> "Internal", model |-> m, connector |-> "", ty |-> NoType,
     from |-> NoPath, at |-> t, seq |-> n, after |-> k]

\* Scheduled::Event(RoutedEvent { event, route })
RoutedEvent(ty, from, to, t, n, k) ==
    [kind |-> "Event", model |-> to.model, connector |-> to.connector, ty |-> ty,
     from |-> from, at |-> t, seq |-> n, after |-> k]

EmptySchedule == [t \in Times |-> << >>]

\* a schedule that accepts every insertion time
NoRegressionCheck(t, cur) == FALSE

\* the test of Scheduler::schedule on the insertion time
TimeRegressed(t, cur) == t < cur

\* a bucket that takes the new entry at its head
PushFront(b, value) == <<value>> \o b

\* the bucket after events.push(value) / vec![value]
BucketPush(b, value) == Append(b, value)

\* variant: a schedule that starts a fresh bucket at every insertion
ScheduleFresh(sch, cur, t, value) ==
    IF TimeRegressed(t, cur)
    THEN [res |-> TimeRegression(cur, t), scheduled |-> sch]
    ELSE [res |-> Ok, scheduled |-> [sch EXCEPT ![t] = <<value>>]]

\* Scheduler::schedule
schedule(sch, cur, t, value) ==
    IF TimeRegressed(t, cur)
    THEN [res |-> TimeRegression(cur, t), scheduled |-> sch]
    ELSE [res |-> Ok, scheduled |-> [sch EXCEPT ![t] = BucketPush(@, value)]]

Keys(sch) == {t \in DOMAIN sch : sch[t] # << >>}

\* variant: the last key of the map
LastTime(sch) ==
    IF Keys(sch) = {} THEN NoTime
    ELSE CHOOSE t \in Keys(sch) : \A u \in Keys(sch) : t >= u

\* Scheduler::get_next_time: the first key of the map
get_next_time(sch) ==
    IF Keys(sch) = {} THEN NoTime
    ELSE CHOOSE t \in Keys(sch) : \A u \in Keys(sch) : t <= u

\* a pop that leaves the clock alone
KeepTime(key, cur) == cur

\* the clock after Scheduler::next popped the bucket of `key`
PoppedTime(key, cur) == key

\* variant: a next that hands the first bucket out and leaves it in the map
PeekNext(sch, cur) ==
    [time |-> PoppedTime(get_next_time(sch), cur), result |-> sch[get_next_time(sch)],
     scheduled |-> sch]

\* Iterator::next for Scheduler: pop_first, then self.time = time
SchedulerNext(sch, cur) ==
    LET k == get_next_time(sch)
    IN  [time |-> PoppedTime(k, cur), result |-> sch[k],
         scheduled |-> [sch EXCEPT ![k] = << >>]]

(***************************************************************************)
(* SimulationCtx and ConnectorCtx (simulation.rs:193-352).                 *)
(***************************************************************************)
NoCtx == [kind |-> "none", on_model |-> "", time |-> NoTime, outputs |-> {}]
\* no sequence of run_until calls is recorded
NoSnap == [phase |-> "none"]
NoCall == [op |-> "-", time |-> NoTime, src |-> "", target |-> NoPath, res |-> NoRes]

\* SimulationCtx::new / new_parameterized: the adjacency of the owner, or the
\* default (empty) one, and the time given
SimulationCtx(cache, t, owner, kind) ==
    [kind |-> kind, on_model |-> owner, time |-> t,
     outputs |-> IF cache[owner].present THEN cache[owner].outputs ELSE {}]

\* one call of Scheduler::schedule on the running simulation
DoSchedule(op, t, value, src, target) ==
    /\ t <= MaxTime
    /\ LET r == schedule(scheduled, time, t, value)
       IN  /\ r.res = Ok => nextSeq < MaxEntries
           /\ scheduled' = r.scheduled
           /\ nextSeq' = IF r.res = Ok THEN nextSeq + 1 ELSE nextSeq
           /\ call' = [op |-> op, time |-> t, src |-> src, target |-> target, res |-> r.res]

\* SimulationCtx::schedule_change, called by the running callback
CtxScheduleChange(tr) ==
    /\ pc = "handler"
    /\ LET t == to_discrete(tr, ctx.time)
       IN  DoSchedule("ctx.schedule_change", t, Internal(ctx.on_model, t, nextSeq, Len(log)),
                      "", NoPath)
    /\ hret' = NoRes
    /\ UNCHANGED <<time, initial_time, snap, pc, max_time, bucket, initq, inits, ctx, simres, log,
                   sysVars, storeVars, evVars>>

\* the target push_event_with_time_and_source sends to: the one given, else
\* the destination of the only output route of the model, else none
PushTarget(target, outputs) ==
    IF target # NoPath THEN target
    ELSE IF Cardinality(outputs) = 1 THEN (CHOOSE r \in outputs : TRUE).to
    ELSE NoPath

\* SimulationCtx::push_event_with_time_and_source (and the ConnectorCtx and
\* push_event wrappers, which only fill in the time and the source connector)
CtxPushEvent(ty, target, t, src) ==
    /\ pc = "handler"
    /\ t <= MaxTime
    /\ LET tgt == PushTarget(target, ctx.outputs)
       IN  IF tgt = NoPath
           THEN /\ call' = [op |-> "ctx.push_event", time |-> t, src |-> src,
                            target |-> target, res |-> MissingEventTarget(ctx.on_model)]
                /\ UNCHANGED <<scheduled, nextSeq>>
           ELSE DoSchedule("ctx.push_event", t,
                    RoutedEvent(ty, ConnectorPath(ctx.on_model, src), tgt, t, nextSeq, Len(log)),
                    src, target)
    /\ hret' = NoRes
    /\ UNCHANGED <<time, initial_time, snap, pc, max_time, bucket, initq, inits, ctx, simres, log,
                   sysVars, storeVars, evVars>>

\* the callback returns; the caller drops the value it returned, and the
\* borrow guard of the model goes out of scope
HandlerErr == Res("HandlerError", "", "", NoTime, NoTime)

HandlerReturn(r) ==
    /\ pc = "handler"
    /\ hret' = r
    /\ taken' = [taken EXCEPT ![ctx.on_model] = SlotRelease(@).taken]
    /\ guards' = [guards EXCEPT ![ctx.on_model] = @ - 1]
    /\ ctx' = NoCtx
    /\ IF ctx.kind = "init"
       THEN /\ initq' = initq \ {ctx.on_model}
            /\ pc' = "init"
       ELSE /\ initq' = initq
            /\ pc' = "drain"
    /\ call' = NoCall
    /\ UNCHANGED <<time, scheduled, initial_time, snap, max_time, bucket, inits, simres, nextSeq,
                   log, bres, sysVars, evVars>>

(***************************************************************************)
(* Simulation (simulation.rs:27-191).                                      *)
(***************************************************************************)
\* variant: the loop of Simulation::new visits no model
NoneRegistered(mods) == {}

\* the keys of the model store, which the loop of Simulation::new goes through
Registered(mods) == {id \in DOMAIN mods : mods[id] # NoModel}

\* Simulation::new up to the loop over the models
SimNew(t0) ==
    /\ pc = "new"
    /\ \E o \in ValidateOutcomes(models, taken, routes, validated, route_cache) :
          /\ vres' = o.res
          /\ validated' = o.validated
          /\ route_cache' = o.cache
          /\ vskip' = validated
          /\ IF o.res # Ok
             THEN /\ pc' = "failed"
                  /\ simres' = o.res
                  /\ UNCHANGED <<time, initial_time, initq, inits>>
             ELSE /\ pc' = "init"
                  /\ time' = t0
                  /\ initial_time' = t0
                  /\ initq' = Registered(models)
                  /\ simres' = simres
    /\ call' = NoCall
    /\ hret' = NoRes
    /\ UNCHANGED <<models, routes, scheduled, max_time, bucket, inits, ctx, nextSeq, log, snap,
                   storeVars, evVars>>

\* one turn of the loop of Simulation::new: the store iterator borrows the
\* next model (skipping a taken slot) and init is called with a context at
\* the initial time
InitEnter(m) ==
    /\ pc = "init"
    /\ m \in initq
    /\ LET b == StoreBorrow(models, taken, m)
       IN  IF b.found /\ b.res = Ok
           THEN /\ taken' = b.taken
                /\ guards' = [guards EXCEPT ![m] = @ + 1]
                /\ ctx' = SimulationCtx(route_cache, initial_time, m, "init")
                /\ pc' = "handler"
                /\ initq' = initq
                /\ inits' = [inits EXCEPT ![m] = @ + 1]
           ELSE /\ initq' = initq \ {m}
                /\ UNCHANGED <<taken, guards, ctx, pc, inits>>
    /\ call' = NoCall
    /\ hret' = NoRes
    /\ UNCHANGED <<time, scheduled, initial_time, snap, max_time, bucket, simres, nextSeq, log,
                   bres, sysVars, evVars>>

\* Simulation::new returns the simulation
InitDone ==
    /\ pc = "init"
    /\ initq = {}
    /\ pc' = "idle"
    /\ simres' = Ok
    /\ call' = NoCall
    /\ hret' = NoRes
    /\ UNCHANGED <<time, scheduled, initial_time, snap, max_time, bucket, initq, inits, ctx, nextSeq,
                   log, sysVars, storeVars, evVars>>

\* the events and updates a client schedules through scheduler_mut()
ExtTargets == {[to |-> ConnectorPath("p1", "receive"), ty |-> "Sig"],
               [to |-> ConnectorPath("p2", "in"), ty |-> "Sig"],
               [to |-> ConnectorPath("p3", "receive"), ty |-> "Sig"]}

\* Scheduler::schedule_event with RoutedEvent::new_external
ExtScheduleEvent(t, x) ==
    /\ pc = "idle"
    /\ DoSchedule("schedule_event", t, RoutedEvent(x.ty, External, x.to, t, nextSeq, Len(log)),
                  "", x.to)
    /\ hret' = NoRes
    /\ UNCHANGED <<time, initial_time, snap, pc, max_time, bucket, initq, inits, ctx, simres, log,
                   sysVars, storeVars, evVars>>

\* Scheduler::schedule_change
ExtScheduleChange(t, m) ==
    /\ pc = "idle"
    /\ DoSchedule("schedule_change", t, Internal(m, t, nextSeq, Len(log)), "", NoPath)
    /\ hret' = NoRes
    /\ UNCHANGED <<time, initial_time, snap, pc, max_time, bucket, initq, inits, ctx, simres, log,
                   sysVars, storeVars, evVars>>

\* variant: the loop of run_until goes on while the next time is not after max_time
DueInclusive(t, tmax) == t <= tmax

\* variant: the loop of run_until breaks only at an entry scheduled at max_time
DueUnlessEqual(t, tmax) == t # tmax

\* the test of the loop of run_until: it breaks when expected_time >= max_time
Due(t, tmax) == ~(t >= tmax)

\* Simulation::run_until is entered
run_until(tmax) ==
    /\ pc = "idle"
    /\ pc' = "loop"
    /\ max_time' = tmax
    /\ call' = NoCall
    /\ hret' = NoRes
    /\ UNCHANGED <<time, scheduled, initial_time, bucket, initq, inits, ctx, simres, nextSeq, log,
                   sysVars, storeVars, evVars>>

\* run_until called by a client that is in no recorded sequence of calls
RunUntil(tmax) == run_until(tmax) /\ UNCHANGED snap

\* Time::MAX: the greatest instant an entry can be scheduled at
TimeMAX == MaxTime

\* Simulation::run: run_until(SimulationTime::MAX)
Run == RunUntil(TimeMAX)

\* the while-let of run_until ends: nothing is pending, or the next time is
\* not before max_time
LoopExit ==
    /\ pc = "loop"
    /\ get_next_time(scheduled) = NoTime \/ ~Due(get_next_time(scheduled), max_time)
    /\ pc' = "idle"
    /\ simres' = Ok
    /\ call' = NoCall
    /\ hret' = NoRes
    /\ max_time' = 0
    /\ UNCHANGED <<time, scheduled, initial_time, snap, bucket, initq, inits, ctx, nextSeq, log,
                   sysVars, storeVars, evVars>>

\* self.scheduler.next().unwrap()
PopBucket ==
    /\ pc = "loop"
    /\ get_next_time(scheduled) # NoTime
    /\ Due(get_next_time(scheduled), max_time)
    /\ LET n == SchedulerNext(scheduled, time)
       IN  /\ time' = n.time
           /\ bucket' = n.result
           /\ scheduled' = n.scheduled
    /\ pc' = "drain"
    /\ call' = NoCall
    /\ hret' = NoRes
    /\ UNCHANGED <<initial_time, snap, max_time, initq, inits, ctx, simres, nextSeq, log, sysVars,
                   storeVars, evVars>>

\* the for loop over the popped bucket ends
DrainDone ==
    /\ pc = "drain"
    /\ bucket = << >>
    /\ pc' = "loop"
    /\ call' = NoCall
    /\ hret' = NoRes
    /\ UNCHANGED <<time, scheduled, initial_time, snap, max_time, bucket, initq, inits, ctx, simres,
                   nextSeq, log, sysVars, storeVars, evVars>>

\* variant: the error of an entry returned with the rest of the bucket kept
AbortKeepsBucket(r) ==
    /\ pc' = "idle"
    /\ max_time' = 0
    /\ simres' = r
    /\ bucket' = Tail(bucket)
    /\ UNCHANGED <<taken, guards, ctx>>

\* variant: the error of an entry returned with the borrow of its model held
AbortHolding(r) ==
    /\ pc' = "idle"
    /\ max_time' = 0
    /\ simres' = r
    /\ bucket' = << >>
    /\ taken' = [id \in DOMAIN taken |-> taken[id] \/ id = r.model]
    /\ UNCHANGED <<guards, ctx>>

\* run_until returns the error of an entry; the rest of the bucket is dropped
Abort(r) ==
    /\ pc' = "idle"
    /\ max_time' = 0
    /\ simres' = r
    /\ bucket' = << >>
    /\ UNCHANGED <<taken, guards, ctx>>

\* the arm Scheduled::Internal of run_until: a context is built and the model
\* borrowed; the call of handle_update is commented out in the source
DispatchInternal ==
    /\ pc = "drain"
    /\ bucket # << >>
    /\ Head(bucket).kind = "Internal"
    /\ log' = Append(log, Head(bucket))
    /\ LET b == StoreBorrow(models, taken, Head(bucket).model)
       IN  IF b.found /\ b.res = Ok
           THEN /\ bucket' = Tail(bucket)
                /\ UNCHANGED <<pc, max_time, simres, taken, guards, ctx>>
           ELSE Abort(ModelNotFound(Head(bucket).model))
    /\ call' = NoCall
    /\ hret' = NoRes
    /\ UNCHANGED <<time, scheduled, initial_time, snap, initq, inits, nextSeq, bres, sysVars, evVars>>

\* variant: a route_event that hands the event to the handler of the
\* destination model without looking at the connector or the payload type
DispatchUnchecked ==
    /\ pc = "drain"
    /\ bucket # << >>
    /\ Head(bucket).kind = "Event"
    /\ log' = Append(log, Head(bucket))
    /\ LET e == Head(bucket)
           b == StoreBorrow(models, taken, e.model)
       IN  IF ~(b.found /\ b.res = Ok) THEN Abort(ModelNotFound(e.model))
           ELSE /\ taken' = b.taken
                /\ guards' = [guards EXCEPT ![e.model] = @ + 1]
                /\ ctx' = SimulationCtx(route_cache, time, e.model, "input")
                /\ pc' = "handler"
                /\ bucket' = Tail(bucket)
                /\ UNCHANGED <<max_time, simres>>
    /\ call' = NoCall
    /\ hret' = NoRes
    /\ UNCHANGED <<time, scheduled, initial_time, snap, initq, inits, nextSeq, bres, sysVars, evVars>>

\* the arm Scheduled::Event of run_until: Simulation::route_event up to the
\* call of the input handler by apply_erased_event
DispatchEvent ==
    /\ pc = "drain"
    /\ bucket # << >>
    /\ Head(bucket).kind = "Event"
    /\ log' = Append(log, Head(bucket))
    /\ LET e == Head(bucket)
           b == StoreBorrow(models, taken, e.model)
           in_type == input_type_id(models[e.model], e.connector)
       IN  IF ~(b.found /\ b.res = Ok) THEN Abort(ModelNotFound(e.model))
           ELSE IF in_type = NoType
                THEN Abort(UnknownModelConnector(e.model, e.connector))
           ELSE IF e.ty # in_type THEN Abort(InvalidEventType)
           ELSE /\ taken' = b.taken
                /\ guards' = [guards EXCEPT ![e.model] = @ + 1]
                /\ ctx' = SimulationCtx(route_cache, time, e.model, "input")
                /\ pc' = "handler"
                /\ bucket' = Tail(bucket)
                /\ UNCHANGED <<max_time, simres>>
    /\ call' = NoCall
    /\ hret' = NoRes
    /\ UNCHANGED <<time, scheduled, initial_time, snap, initq, inits, nextSeq, bres, sysVars, evVars>>

(***************************************************************************)
(* Specifications.  Each one starts its own component from the state after *)
(* construction and leaves the other components at rest.                   *)
(***************************************************************************)
NoBres == [op |-> "-", id |-> "", found |-> FALSE, res |-> NoRes]
NoEvres == [op |-> "-", ok |-> FALSE, asked |-> NoType, data |-> Wild, live |-> FALSE,
            val |-> 0, env |-> {}]

SysRest ==
    /\ models = [id \in AllIds |-> NoModel]
    /\ routes = [a \in Origins |-> NoPath]
    /\ validated = FALSE
    /\ route_cache = [id \in AllIds |-> NoAdj]
    /\ vres = NoRes
    /\ vskip = FALSE

StoreRest ==
    /\ taken = [id \in AllIds |-> FALSE]
    /\ guards = [id \in AllIds |-> 0]
    /\ bres = NoBres

EvRest ==
    /\ heap = [h \in Allocs |-> FreeCell]
    /\ events = {}
    /\ envelopes = {}
    /\ evres = NoEvres
    /\ queue = [id \in AllIds |-> << >>]

SimRest ==
    /\ time = 0
    /\ scheduled = EmptySchedule
    /\ initial_time = 0
    /\ snap = NoSnap
    /\ pc = "off"
    /\ max_time = 0
    /\ bucket = << >>
    /\ initq = {}
    /\ inits = [id \in AllIds |-> 0]
    /\ ctx = NoCtx
    /\ simres = NoRes
    /\ call = NoCall
    /\ nextSeq = 0
    /\ log = << >>
    /\ hret = NoRes

\* ---- the model store: a store holding any of the models, borrowed and
\* released by crate code
InitStore ==
    /\ models \in [AllIds -> {NoModel} \cup Classes]
    /\ models["p3"] = NoModel
    /\ routes = [a \in Origins |-> NoPath]
    /\ validated = FALSE
    /\ route_cache = [id \in AllIds |-> NoAdj]
    /\ vres = NoRes
    /\ vskip = FALSE
    /\ StoreRest /\ EvRest /\ SimRest

NextStore ==
    \/ \E id \in AllIds : Borrow(id)
    \/ \E id \in AllIds : DropGuard(id)
    \/ \E id \in AllIds : Release(id)

SpecStore == InitStore /\ [][NextStore]_vars

\* ---- the system model under construction: push_model, push_route, validate
InitSys == SysRest /\ StoreRest /\ EvRest /\ SimRest

\* the models and routes a client builds systems from
PushedClasses == {"Player", "Queue", "Mispaired"}
PushedOrigins == {ConnectorPath("p1", "send"), ConnectorPath("p1", "out"),
                  ConnectorPath("p2", "send")}
PushedDests   == {ConnectorPath("p2", "receive"), ConnectorPath("p2", "in"),
                  ConnectorPath("p1", "receive"), ConnectorPath("p3", "receive"),
                  ConnectorPath("p2", "pop")}

NextSys ==
    \/ \E id \in ModelIds, c \in PushedClasses : PushModel(id, c)
    \/ \E a \in PushedOrigins, b \in PushedDests : PushRoute(a, b)
    \/ Validate

SpecSys == InitSys /\ [][NextSys]_vars

\* ---- events: made, erased, restored and dropped
InitEvent == SysRest /\ StoreRest /\ EvRest /\ SimRest

NextEvent ==
    \/ \E ty \in Types, v \in Payloads : EventNew(ty, v)
    \/ \E e \in events : Erase(e)
    \/ \E env \in envelopes, N \in Types : Restore(env, N)
    \/ \E e \in events : DropEvent(e)

SpecEvent == InitEvent /\ [][NextEvent]_vars

\* ---- the simulation: Simulation::new on one of the systems below, then the
\* client scheduling entries and calling run_until, and the callbacks using
\* their context
MkModels(c1, c2) == [id \in AllIds |-> IF id = "p1" THEN c1 ELSE IF id = "p2" THEN c2 ELSE NoModel]
MkRoutes(rs) ==
    [a \in Origins |-> IF \E r \in rs : r.from = a
                       THEN (CHOOSE r \in rs : r.from = a).to ELSE NoPath]

\* examples/ping_pong.rs: two players wired to each other
PingPong ==
    [models |-> MkModels("Player", "Player"),
     routes |-> MkRoutes({Route(ConnectorPath("p1", "send"), ConnectorPath("p2", "receive")),
                          Route(ConnectorPath("p2", "send"), ConnectorPath("p1", "receive"))})]

\* a Cloner with both outputs wired to the input of a Queue
ClonerQueue ==
    [models |-> MkModels("Cloner", "Queue"),
     routes |-> MkRoutes({Route(ConnectorPath("p1", "output_0"), ConnectorPath("p2", "in")),
                          Route(ConnectorPath("p1", "output_1"), ConnectorPath("p2", "in"))})]

\* a Player output routed to the Int input of a Queue
Miswired ==
    [models |-> MkModels("Player", "Queue"),
     routes |-> MkRoutes({Route(ConnectorPath("p1", "send"), ConnectorPath("p2", "in"))})]

\* a Cloner with only its first output wired, to the input of a Queue
HalfWired ==
    [models |-> MkModels("Cloner", "Queue"),
     routes |-> MkRoutes({Route(ConnectorPath("p1", "output_0"), ConnectorPath("p2", "in"))})]

SimSystems == {PingPong, ClonerQueue, Miswired, HalfWired}

InitialTimes == {0, 1}
PushTargets == {NoPath, ConnectorPath("p1", "receive")}
OutputNames(c) == {output_connectors(c)[i].name : i \in DOMAIN output_connectors(c)}
AllOutputNames == UNION {OutputNames(c) : c \in Classes}

\* the running callback pushes an event of the type of one of the outputs its
\* model declares, through the ConnectorCtx of that output
ModelPush(src, target, t) ==
    /\ pc = "handler"
    /\ src \in OutputNames(models[ctx.on_model])
    /\ CtxPushEvent(output_type_id(models[ctx.on_model], src), target, t, src)

Init ==
    /\ \E S \in SimSystems : models = S.models /\ routes = S.routes
    /\ validated = FALSE
    /\ route_cache = [id \in AllIds |-> NoAdj]
    /\ vres = NoRes
    /\ vskip = FALSE
    /\ StoreRest /\ EvRest
    /\ time = 0
    /\ scheduled = EmptySchedule
    /\ initial_time = 0
    /\ snap = NoSnap
    /\ pc = "new"
    /\ max_time = 0
    /\ bucket = << >>
    /\ initq = {}
    /\ inits = [id \in AllIds |-> 0]
    /\ ctx = NoCtx
    /\ simres = NoRes
    /\ call = NoCall
    /\ nextSeq = 0
    /\ log = << >>
    /\ hret = NoRes

Next ==
    \/ \E t0 \in InitialTimes : SimNew(t0)
    \/ \E m \in AllIds : InitEnter(m)
    \/ InitDone
    \/ \E tr \in Triggers : CtxScheduleChange(tr)
    \/ \E src \in AllOutputNames, target \in PushTargets, t \in Times :
          ModelPush(src, target, t)
    \/ \E r \in {Ok, HandlerErr} : HandlerReturn(r)
    \/ \E t \in Times, x \in ExtTargets : ExtScheduleEvent(t, x)
    \/ \E t \in Times, m \in {"p1", "p3"} : ExtScheduleChange(t, m)
    \/ \E tmax \in 0 .. MaxTime + 1 : RunUntil(tmax)
    \/ Run
    \/ LoopExit
    \/ PopBucket
    \/ DrainDone
    \/ DispatchInternal
    \/ DispatchEvent

Spec == Init /\ [][Next]_vars

(***************************************************************************)
(* TimeBounds (time.rs:366-430) and the cancellation of updates.           *)
(***************************************************************************)
Included(t) == [bound |-> "Included", t |-> t]
Excluded(t) == [bound |-> "Excluded", t |-> t]
Unbounded   == [bound |-> "Unbounded", t |-> NoTime]

\* From<RangeBounds<Time>> for TimeBounds: the two bounds as given
TimeBounds(start, end) == [start |-> start, end |-> end]

\* variant: an upper bound that never includes its end
includesHalfOpen(bounds, t) ==
    /\ ~(bounds.start.bound = "Included" /\ bounds.start.t > t)
    /\ ~(bounds.start.bound = "Excluded" /\ bounds.start.t >= t)
    /\ ~(bounds.end.bound # "Unbounded" /\ bounds.end.t <= t)

\* TimeBounds::includes
includes(bounds, t) ==
    IF bounds.start.bound = "Included" /\ bounds.start.t > t THEN FALSE
    ELSE IF bounds.start.bound = "Excluded" /\ bounds.start.t >= t THEN FALSE
    ELSE IF bounds.end.bound = "Included" /\ bounds.end.t < t THEN FALSE
    ELSE IF bounds.end.bound = "Excluded" /\ bounds.end.t <= t THEN FALSE
    ELSE TRUE

\* an entry is the update of model m
IsUpdateOf(e, m) == e.kind = "Internal" /\ e.model = m

\* the entries of bucket b but those of the set `dropped`
Without(b, dropped) ==
    LET F[i \in 0 .. Len(b)] ==
            IF i = 0 THEN << >>
            ELSE IF b[i] \in dropped THEN F[i - 1] ELSE Append(F[i - 1], b[i])
    IN  F[Len(b)]

\* variant: a cancellation that removes every entry that concerns the model
CancelledAll(sch, m, bounds) ==
    [t \in DOMAIN sch |->
        IF includes(bounds, t)
        THEN Without(sch[t], {sch[t][i] : i \in {j \in DOMAIN sch[t] : sch[t][j].model = m}})
        ELSE sch[t]]

\* cancel_updates(model-id, optional bounds): the Internal entries of the
\* model leave the buckets whose time the bounds include
Cancelled(sch, m, bounds) ==
    [t \in DOMAIN sch |->
        IF includes(bounds, t)
        THEN Without(sch[t], {sch[t][i] : i \in {j \in DOMAIN sch[t] : IsUpdateOf(sch[t][j], m)}})
        ELSE sch[t]]

\* ---- a bare Scheduler: entries scheduled, updates cancelled, buckets popped
schedRest == <<initial_time, snap, pc, max_time, bucket, initq, inits, ctx, simres, hret,
               sysVars, storeVars, evVars>>

\* Scheduler::schedule_change / schedule_event on the bare scheduler
SchedSchedule(t, value) ==
    /\ pc = "sched"
    /\ LET r == schedule(scheduled, time, t, value)
       IN  /\ r.res = Ok => nextSeq < MaxCancelEntries
           /\ scheduled' = r.scheduled
           /\ nextSeq' = IF r.res = Ok THEN nextSeq + 1 ELSE nextSeq
           /\ call' = [op |-> "schedule", time |-> NoTime, src |-> "", target |-> NoPath,
                       res |-> r.res]
    /\ UNCHANGED <<time, log, schedRest>>

SchedChange(t, m) == SchedSchedule(t, Internal(m, t, nextSeq, 0))
SchedEvent(t, to) == SchedSchedule(t, RoutedEvent("Sig", External, to, t, nextSeq, 0))

\* cancel_updates(m), with the bounds given or with none
CancelUpdates(op, m, bounds) ==
    /\ pc = "sched"
    /\ scheduled' = Cancelled(scheduled, m, bounds)
    /\ call' = [op |-> op, time |-> NoTime, src |-> m, target |-> NoPath, res |-> Ok,
                bounds |-> bounds, logged |-> Len(log)]
    /\ UNCHANGED <<time, nextSeq, log, schedRest>>

\* one step: the next bucket is popped and its entries are dispatched in order
SchedStep ==
    /\ pc = "sched"
    /\ get_next_time(scheduled) # NoTime
    /\ LET n == SchedulerNext(scheduled, time)
       IN  /\ time' = n.time
           /\ scheduled' = n.scheduled
           /\ log' = log \o n.result
    /\ UNCHANGED <<nextSeq, call, schedRest>>

InitCancel ==
    /\ SysRest /\ StoreRest /\ EvRest
    /\ time = 0
    /\ scheduled = [t \in 0 .. MaxCancelTime |-> << >>]
    /\ initial_time = 0
    /\ snap = NoSnap
    /\ pc = "sched"
    /\ max_time = 0
    /\ bucket = << >>
    /\ initq = {}
    /\ inits = [id \in AllIds |-> 0]
    /\ ctx = NoCtx
    /\ simres = NoRes
    /\ call = NoCall
    /\ nextSeq = 0
    /\ log = << >>
    /\ hret = NoRes

NextCancel ==
    \/ \E t \in 0 .. MaxCancelTime : SchedChange(t, "p1")
    \/ \E t \in {2, MaxCancelTime} : SchedChange(t, "p2")
    \/ \E t \in {2, MaxCancelTime} : SchedEvent(t, ConnectorPath("p1", "receive"))
    \/ \E m \in ModelIds : CancelUpdates("cancel_updates", m, TimeBounds(Unbounded, Unbounded))
    \/ \E m \in ModelIds,
          b \in {TimeBounds(Included(1), Included(2)), TimeBounds(Excluded(2), Unbounded)} :
             CancelUpdates("cancel_updates_bounded", m, b)
    \/ SchedStep

SpecCancel == InitCancel /\ [][NextCancel]_vars

(***************************************************************************)
(* The sample models run by the driver: their handlers, translated whole.  *)
(***************************************************************************)
\* one call of Scheduler::schedule within the instants and entries explored
ScheduleCapped(op, t, value, cap) ==
    /\ t \in DOMAIN scheduled
    /\ LET r == schedule(scheduled, time, t, value)
       IN  /\ r.res = Ok => nextSeq < cap
           /\ scheduled' = r.scheduled
           /\ nextSeq' = IF r.res = Ok THEN nextSeq + 1 ELSE nextSeq
           /\ call' = [op |-> op, time |-> t, src |-> "", target |-> NoPath, res |-> r.res]

\* an input handler returns r: apply_erased_event drops r, the guard of the
\* model goes out of scope and the loop over the bucket goes on
InputReturned(r) ==
    /\ hret' = r
    /\ taken' = [taken EXCEPT ![ctx.on_model] = SlotRelease(@).taken]
    /\ guards' = [guards EXCEPT ![ctx.on_model] = @ - 1]
    /\ ctx' = NoCtx
    /\ pc' = "drain"

\* Model::init as the trait defines it: Ok(())
DefaultInit ==
    /\ pc = "handler"
    /\ ctx.kind = "init"
    /\ HandlerReturn(Ok)

\* ---- examples/ping_pong.rs; times are in tenths of a unit
\* the handler of Player::receive: ctx.schedule_change(In(delay))?; Ok(())
PlayerReceive(d) ==
    /\ pc = "handler"
    /\ ctx.kind = "input"
    /\ models[ctx.on_model] = "Player"
    /\ LET t == to_discrete(Relative(d), ctx.time)
       IN  ScheduleCapped("ctx.schedule_change", t,
                          Internal(ctx.on_model, t, nextSeq, Len(log)), MaxPlayEntries)
    /\ InputReturned(call'.res)
    /\ UNCHANGED <<time, initial_time, snap, max_time, bucket, initq, inits, simres, log,
                   bres, sysVars, evVars>>

\* main: scheduler_mut().schedule_event(t, RoutedEvent::new_external(.., p1::receive))
PlaySignal(t) ==
    /\ pc = "idle"
    /\ ScheduleCapped("schedule_event", t,
          RoutedEvent("Sig", External, ConnectorPath("p1", "receive"), t, nextSeq, Len(log)),
          MaxPlayEntries)
    /\ hret' = NoRes
    /\ UNCHANGED <<time, initial_time, snap, pc, max_time, bucket, initq, inits, ctx, simres, log,
                   sysVars, storeVars, evVars>>

InitPlay ==
    /\ models = PingPong.models /\ routes = PingPong.routes
    /\ validated = FALSE
    /\ route_cache = [id \in AllIds |-> NoAdj]
    /\ vres = NoRes
    /\ vskip = FALSE
    /\ StoreRest /\ EvRest
    /\ time = 0
    /\ scheduled = [t \in 0 .. MaxPlayTime |-> << >>]
    /\ initial_time = 0
    /\ snap = NoSnap
    /\ pc = "new"
    /\ max_time = 0
    /\ bucket = << >>
    /\ initq = {}
    /\ inits = [id \in AllIds |-> 0]
    /\ ctx = NoCtx
    /\ simres = NoRes
    /\ call = NoCall
    /\ nextSeq = 0
    /\ log = << >>
    /\ hret = NoRes

NextPlay ==
    \/ SimNew(0)
    \/ \E m \in AllIds : InitEnter(m)
    \/ DefaultInit
    \/ InitDone
    \/ \E t \in {0, 5, 10, 20} : PlaySignal(t)
    \/ \E tmax \in {5, 10, MaxPlayTime} : RunUntil(tmax)
    \/ LoopExit
    \/ PopBucket
    \/ DrainDone
    \/ DispatchInternal
    \/ DispatchEvent
    \/ \E d \in {0, 5, 9} : PlayerReceive(d)   \* ctx.rand_range(0.0..1.0)

SpecPlay == InitPlay /\ [][NextPlay]_vars

\* ---- examples/serde_fishtank.rs, main: run_until called on a simulation and
\* called again with a later bound, each result unwrapped with expect; the
\* models are the players of ping_pong.rs on a generator whose n-th dispatch
\* draws snap.rng[n]
\* what a client reads of the simulation between two calls
Observed ==
    [time |-> time, scheduled |-> scheduled, log |-> log, simres |-> simres,
     taken |-> taken, queue |-> queue, nextSeq |-> nextSeq]

\* scheduler_mut().schedule_event(t, RoutedEvent::new_external(.., x.to)) before the calls
SplitSignal(t, x) ==
    /\ pc = "idle"
    /\ snap.phase = "setup"
    /\ ScheduleCapped("schedule_event", t,
          RoutedEvent(x.ty, External, x.to, t, nextSeq, Len(log)), MaxSplitEntries)
    /\ hret' = NoRes
    /\ UNCHANGED <<time, initial_time, snap, pc, max_time, bucket, initq, inits, ctx, simres, log,
                   sysVars, storeVars, evVars>>

\* sim.run_until(a), in a sequence that goes on with run_until(b)
FirstCall(a, b) ==
    /\ snap.phase = "setup"
    /\ a <= b
    /\ run_until(a)
    /\ snap' = [snap EXCEPT !.phase = "first", !.a = a, !.b = b, !.start = Observed]

\* .expect(..) passed the first result on: sim.run_until(b)
SecondCall ==
    /\ snap.phase = "first"
    /\ simres = Ok
    /\ run_until(snap.b)
    /\ snap' = [snap EXCEPT !.phase = "second"]

\* the sequence is over (its second call returned, or expect panicked on the
\* first result): what it left is recorded and the simulation is put back in
\* the state the sequence started from
Restart ==
    /\ pc = "idle"
    /\ snap.phase = "second" \/ (snap.phase = "first" /\ simres # Ok)
    /\ snap' = [snap EXCEPT !.phase = "again", !.split = Observed]
    /\ time' = snap.start.time
    /\ scheduled' = snap.start.scheduled
    /\ log' = snap.start.log
    /\ simres' = snap.start.simres
    /\ nextSeq' = snap.start.nextSeq
    /\ call' = NoCall
    /\ hret' = NoRes
    /\ UNCHANGED <<initial_time, pc, max_time, bucket, initq, inits, ctx, sysVars, storeVars,
                   evVars>>

\* sim.run_until(b) alone, from the state the sequence started from
SingleCall ==
    /\ snap.phase = "again"
    /\ run_until(snap.b)
    /\ snap' = [snap EXCEPT !.phase = "single"]

\* the handler of Player::receive on the seeded generator
SeededReceive ==
    /\ pc = "handler"
    /\ ctx.kind = "input"
    /\ PlayerReceive(snap.rng[Len(log)])

InitSplit ==
    /\ models = PingPong.models /\ routes = PingPong.routes
    /\ validated = FALSE
    /\ route_cache = [id \in AllIds |-> NoAdj]
    /\ vres = NoRes
    /\ vskip = FALSE
    /\ StoreRest /\ EvRest
    /\ time = 0
    /\ scheduled = [t \in 0 .. MaxSplitTime |-> << >>]
    /\ initial_time = 0
    /\ snap \in {[phase |-> "setup", rng |-> r, a |-> 0, b |-> 0, start |-> << >>,
                   split |-> << >>] : r \in [1 .. MaxSplitEntries -> {0, 2}]}
    /\ pc = "new"
    /\ max_time = 0
    /\ bucket = << >>
    /\ initq = {}
    /\ inits = [id \in AllIds |-> 0]
    /\ ctx = NoCtx
    /\ simres = NoRes
    /\ call = NoCall
    /\ nextSeq = 0
    /\ log = << >>
    /\ hret = NoRes

NextSplit ==
    \/ SimNew(0)
    \/ \E m \in AllIds : InitEnter(m)
    \/ DefaultInit
    \/ InitDone
    \/ \E t \in 0 .. 2, x \in ExtTargets : SplitSignal(t, x)
    \/ \E a, b \in 0 .. MaxSplitTime : FirstCall(a, b)
    \/ SecondCall
    \/ Restart
    \/ SingleCall
    \/ LoopExit
    \/ PopBucket
    \/ DrainDone
    \/ DispatchInternal
    \/ DispatchEvent
    \/ SeededReceive

SpecSplit == InitSplit /\ [][NextSplit]_vars

\* ---- run_until on handlers that schedule one entry, later than the entry
\* they handle by d >= 1, without a bound on the number of entries
\* an input handler: ctx.push_event_with_time(.., "send", ctx.time + d)?; Ok(())
LaterPush(d) ==
    /\ pc = "handler"
    /\ ctx.kind = "input"
    /\ LET t == to_discrete(Relative(d), ctx.time)
       IN  ScheduleCapped("ctx.push_event", t,
              RoutedEvent(output_type_id(models[ctx.on_model], "send"),
                          ConnectorPath(ctx.on_model, "send"),
                          PushTarget(NoPath, ctx.outputs), t, nextSeq, Len(log)),
              nextSeq + 1)
    /\ InputReturned(call'.res)
    /\ UNCHANGED <<time, initial_time, snap, max_time, bucket, initq, inits, simres, log,
                   bres, sysVars, evVars>>

\* run_until(tmax) called; the client notes the clock it calls at
LiveCall(tmax) ==
    /\ run_until(tmax)
    /\ snap' = [phase |-> "live", at |-> time]

InitLive ==
    /\ models = PingPong.models /\ routes = PingPong.routes
    /\ validated = FALSE
    /\ route_cache = [id \in AllIds |-> NoAdj]
    /\ vres = NoRes
    /\ vskip = FALSE
    /\ StoreRest /\ EvRest
    /\ time = 0
    /\ scheduled = [t \in 0 .. MaxLiveTime + 1 |-> << >>]
    /\ initial_time = 0
    /\ snap = NoSnap
    /\ pc = "new"
    /\ max_time = 0
    /\ bucket = << >>
    /\ initq = {}
    /\ inits = [id \in AllIds |-> 0]
    /\ ctx = NoCtx
    /\ simres = NoRes
    /\ call = NoCall
    /\ nextSeq = 0
    /\ log = << >>
    /\ hret = NoRes

\* the steps of the driver and of the handlers it calls: sequential code
LiveStep ==
    \/ LoopExit
    \/ PopBucket
    \/ DrainDone
    \/ DispatchInternal
    \/ DispatchEvent
    \/ \E d \in {1, 2} : LaterPush(d)

NextLive ==
    \/ SimNew(0)
    \/ \E m \in AllIds : InitEnter(m)
    \/ DefaultInit
    \/ InitDone
    \/ \E t \in Times, x \in ExtTargets : ExtScheduleEvent(t, x)
    \/ \E t \in Times, m \in {"p1", "p3"} : ExtScheduleChange(t, m)
    \/ \E tmax \in 1 .. MaxLiveTime : LiveCall(tmax)
    \/ LiveStep

SpecLive == InitLive /\ [][NextLive]_vars /\ WF_vars(LiveStep)

\* ---- time.rs and Simulation::handle_produced_event, applied to bounded inputs
\* on a simulation of no model whose clock may have advanced
Panicked == [panic |-> TRUE]

\* TimeBounds::new
TimeBounds_new(start, end) ==
    IF end >= start THEN Panicked
    ELSE TimeBounds(Included(start), Excluded(end))

\* TimeBounds::new_inclusive
TimeBounds_new_inclusive(start, end) ==
    IF end >= start THEN Panicked
    ELSE TimeBounds(Included(start), Included(end))

\* impl Add, Sub, SubAssign for TimeDelta
DeltaAdd(a, b) == a + b
DeltaSub(a, b) == a + b
DeltaSubAssign(a, b) == a - b

\* impl Add<TimeDelta>, Sub<TimeDelta>, SubAssign<TimeDelta> for Time
TimeAdd(t, d) == t + d
TimeSub(t, d) == t + d
TimeSubAssign(t, d) == t - d

BoundsNew(start, end) ==
    /\ pc = "idle"
    /\ call' = [op |-> "TimeBounds::new", args |-> <<start, end>>,
                res |-> TimeBounds_new(start, end)]
    /\ UNCHANGED <<time, scheduled, nextSeq, log, schedRest>>

BoundsNewInclusive(start, end) ==
    /\ pc = "idle"
    /\ call' = [op |-> "TimeBounds::new_inclusive", args |-> <<start, end>>,
                res |-> TimeBounds_new_inclusive(start, end)]
    /\ UNCHANGED <<time, scheduled, nextSeq, log, schedRest>>

\* (a + d) - d, a - d, and a -= d on TimeDelta
DeltaArith(a, d) ==
    /\ pc = "idle"
    /\ call' = [op |-> "TimeDelta", args |-> <<a, d>>,
                res |-> [add_sub |-> DeltaSub(DeltaAdd(a, d), d), sub |-> DeltaSub(a, d),
                         sub_assign |-> DeltaSubAssign(a, d)]]
    /\ UNCHANGED <<time, scheduled, nextSeq, log, schedRest>>

\* (t + d) - d, t - d, and t -= d on Time
TimeArith(t, d) ==
    /\ pc = "idle"
    /\ call' = [op |-> "Time", args |-> <<t, d>>,
                res |-> [add_sub |-> TimeSub(TimeAdd(t, d), d), sub |-> TimeSub(t, d),
                         sub_assign |-> TimeSubAssign(t, d)]]
    /\ UNCHANGED <<time, scheduled, nextSeq, log, schedRest>>

\* Simulation::handle_produced_event for an event model m produced on its
\* connector send with scheduling tr, and the default target given
HandleProducedEvent(m, tr, default_target) ==
    /\ pc = "idle"
    /\ LET t == to_discrete(tr, initial_time)
           r == schedule(scheduled, time, t,
                         RoutedEvent("Sig", ConnectorPath(m, "send"), default_target, t,
                                     nextSeq, Len(log)))
           res == IF default_target = NoPath THEN MissingEventTarget(m)
                  ELSE IF tr.kind = "Now" THEN ModelNotFound(default_target.model)
                  ELSE r.res
       IN  /\ res = Ok => (nextSeq < 2 /\ t \in DOMAIN scheduled)
           /\ scheduled' = IF res = Ok THEN r.scheduled ELSE scheduled
           /\ nextSeq' = IF res = Ok THEN nextSeq + 1 ELSE nextSeq
           /\ call' = [op |-> "handle_produced_event", time |-> t, src |-> "send",
                       target |-> default_target, res |-> res, trigger |-> tr]
    /\ UNCHANGED <<time, log, schedRest>>

InitTime ==
    /\ SysRest /\ StoreRest /\ EvRest
    /\ time \in 0 .. MaxTime + 1
    /\ initial_time \in 0 .. time
    /\ scheduled = [t \in 0 .. MaxTime + 2 |-> << >>]
    /\ snap = NoSnap
    /\ pc = "idle"
    /\ max_time = 0
    /\ bucket = << >>
    /\ initq = {}
    /\ inits = [id \in AllIds |-> 0]
    /\ ctx = NoCtx
    /\ simres = Ok
    /\ call = NoCall
    /\ nextSeq = 0
    /\ log = << >>
    /\ hret = NoRes

NextTime ==
    \/ \E start, end \in 0 .. MaxTime + 1 : BoundsNew(start, end)
    \/ \E start, end \in 0 .. MaxTime + 1 : BoundsNewInclusive(start, end)
    \/ \E a, d \in Deltas : DeltaArith(a, d)
    \/ \E t \in 0 .. MaxTime + 1, d \in Deltas : TimeArith(t, d)
    \/ \E tr \in Triggers, x \in PushTargets : HandleProducedEvent("p1", tr, x)

SpecTime == InitTime /\ [][NextTime]_vars

\* ---- crates/litesim_models/src/queue.rs: Queue<T> with T = Int
QueueInputs == <<7, 8, 9>>   \* the payloads the client sends, in this order

\* message values: a T and the Option<T> that VecDeque::pop_back yields
Value(v) == [tag |-> "value", v |-> v]
Some(v)  == [tag |-> "Some", v |-> v]
None     == [tag |-> "None", v |-> 0]

\* a RoutedEvent together with the payload its event was built from
PayloadEvent(ty, val, from, to, t, n, k) ==
    [kind |-> "Event", model |-> to.model, connector |-> to.connector, ty |-> ty,
     from |-> from, at |-> t, seq |-> n, after |-> k, val |-> val]

\* the payload a handler gets from try_restore_type: read through the pointer
\* erase_message_type left dangling, it is the value sent or other bits
StaleRead(v) == {v, 0}

\* VecDeque::push_front and VecDeque::pop_back
push_front(q, v) == <<v>> \o q
pop_back(q) ==
    IF q = << >> THEN [value |-> None, queue |-> q]
    ELSE [value |-> Some(q[Len(q)]), queue |-> SubSeq(q, 1, Len(q) - 1)]

\* the event the running input handler was called with
Delivered == log[Len(log)]

\* handler of `in`: this.queue.push_front(ev.into_inner()); Ok(())
QueueIn(v) ==
    /\ pc = "handler"
    /\ ctx.kind = "input"
    /\ models[ctx.on_model] = "Queue"
    /\ Delivered.connector = "in"
    /\ v \in StaleRead(Delivered.val.v)
    /\ queue' = [queue EXCEPT ![ctx.on_model] = push_front(@, v)]
    /\ call' = NoCall
    /\ InputReturned(Ok)
    /\ UNCHANGED <<time, scheduled, initial_time, snap, max_time, bucket, initq, inits, simres,
                   nextSeq, log, bres, sysVars, heap, events, envelopes, evres>>

\* handler of `pop`: push_event!(ctx, "out", this.queue.pop_back()), that is an
\* event built from the Option popped, pushed without a target on `out`
QueuePop ==
    /\ pc = "handler"
    /\ ctx.kind = "input"
    /\ models[ctx.on_model] = "Queue"
    /\ Delivered.connector = "pop"
    /\ LET popped == pop_back(queue[ctx.on_model])
           tgt == PushTarget(NoPath, ctx.outputs)
       IN  /\ queue' = [queue EXCEPT ![ctx.on_model] = popped.queue]
           /\ IF tgt = NoPath
              THEN /\ call' = [op |-> "ctx.push_event", time |-> ctx.time, src |-> "out",
                               target |-> NoPath, res |-> MissingEventTarget(ctx.on_model)]
                   /\ UNCHANGED <<scheduled, nextSeq>>
              ELSE ScheduleCapped("ctx.push_event", ctx.time,
                       PayloadEvent("Option<Int>", popped.value,
                                    ConnectorPath(ctx.on_model, "out"), tgt, ctx.time,
                                    nextSeq, Len(log)),
                       MaxQueueEntries)
    /\ InputReturned(call'.res)
    /\ UNCHANGED <<time, initial_time, snap, max_time, bucket, initq, inits, simres, log, bres,
                   sysVars, heap, events, envelopes, evres>>

\* the client: schedule_event(t, an Event<Int> holding its next payload, to p1::in)
QueueSend(t) ==
    /\ pc = "idle"
    /\ nextSeq < Len(QueueInputs)
    /\ ScheduleCapped("schedule_event", t,
          PayloadEvent("Int", Value(QueueInputs[nextSeq + 1]), External,
                       ConnectorPath("p1", "in"), t, nextSeq, Len(log)),
          MaxQueueEntries)
    /\ hret' = NoRes
    /\ UNCHANGED <<time, initial_time, snap, pc, max_time, bucket, initq, inits, ctx, simres, log,
                   sysVars, storeVars, evVars>>

\* the client: schedule_event(t, a Signal, to p1::pop)
QueueSignal(t) ==
    /\ pc = "idle"
    /\ ScheduleCapped("schedule_event", t,
          PayloadEvent("Sig", [tag |-> "unit", v |-> 0], External,
                       ConnectorPath("p1", "pop"), t, nextSeq, Len(log)),
          MaxQueueEntries)
    /\ hret' = NoRes
    /\ UNCHANGED <<time, initial_time, snap, pc, max_time, bucket, initq, inits, ctx, simres, log,
                   sysVars, storeVars, evVars>>

\* one Queue alone, and one whose output is wired to the input of a second
QueueAlone == [models |-> MkModels("Queue", NoModel), routes |-> MkRoutes({})]
QueueChain ==
    [models |-> MkModels("Queue", "Queue"),
     routes |-> MkRoutes({Route(ConnectorPath("p1", "out"), ConnectorPath("p2", "in"))})]

InitQueue ==
    /\ \E S \in {QueueAlone, QueueChain} : models = S.models /\ routes = S.routes
    /\ validated = FALSE
    /\ route_cache = [id \in AllIds |-> NoAdj]
    /\ vres = NoRes
    /\ vskip = FALSE
    /\ StoreRest /\ EvRest
    /\ time = 0
    /\ scheduled = [t \in 0 .. MaxQueueTime |-> << >>]
    /\ initial_time = 0
    /\ snap = NoSnap
    /\ pc = "new"
    /\ max_time = 0
    /\ bucket = << >>
    /\ initq = {}
    /\ inits = [id \in AllIds |-> 0]
    /\ ctx = NoCtx
    /\ simres = NoRes
    /\ call = NoCall
    /\ nextSeq = 0
    /\ log = << >>
    /\ hret = NoRes

NextQueue ==
    \/ SimNew(0)
    \/ \E m \in AllIds : InitEnter(m)
    \/ DefaultInit
    \/ InitDone
    \/ \E t \in {0, 1} : QueueSend(t)
    \/ QueueSignal(MaxQueueTime)
    \/ \E tmax \in {1, MaxQueueTime + 1} : RunUntil(tmax)
    \/ LoopExit
    \/ PopBucket
    \/ DrainDone
    \/ DispatchEvent
    \/ \E v \in {QueueInputs[i] : i \in DOMAIN QueueInputs} \cup {0} : QueueIn(v)
    \/ QueuePop

SpecQueue == InitQueue /\ [][NextQueue]_vars

(***************************************************************************)
(* Properties.                                                             *)
(***************************************************************************)

\* C1: the clock of a created simulation never decreases, and the step that
\* pops a bucket leaves the clock equal to the key of that bucket, the least
\* key pending, with the popped bucket as the list to dispatch.
MonotoneTime ==
    [][/\ pc # "new" => time' >= time
       /\ (pc = "loop" /\ pc' = "drain") =>
             /\ time' \in Keys(scheduled)
             /\ \A u \in Keys(scheduled) : time' <= u
             /\ bucket' = scheduled[time']]_vars

\* a bucket was popped at a time later than the initial one
MonotoneTimeWitness ==
    pc = "drain" /\ bucket # << >> /\ time > initial_time /\ log = << >>

\* the output connector c of model m is the origin of a route
IsWired(m, c) == \E r \in RouteSet(routes) : r.from = ConnectorPath(m, c)

\* C2: every scheduling call whose resolved time is before the clock returns
\* TimeRegression{current, insertion} and leaves the buckets and the clock as
\* they were; for a push by a model, the pushing output connector being wired.
RegressionRejected ==
    [][(/\ call' # NoCall
        /\ call'.time < time
        /\ call'.op = "ctx.push_event" => IsWired(ctx.on_model, call'.src))
       => /\ call'.res = TimeRegression(time, call'.time)
          /\ UNCHANGED <<scheduled, time, bucket>>]_vars

\* C3: entries scheduled at the same time are dispatched in the order in
\* which they were scheduled.
FifoWithinBucket ==
    \A i, j \in DOMAIN log :
        (i < j /\ log[i].at = log[j].at) => log[i].seq < log[j].seq

\* two entries of one time were dispatched, an entry for another time having
\* been scheduled between them
FifoWitness ==
    \E i, j, k \in DOMAIN log :
        /\ i < j
        /\ log[i].at = log[j].at
        /\ log[k].at # log[i].at
        /\ log[i].seq < log[k].seq /\ log[k].seq < log[j].seq

\* C4: the scheduled times of the entries dispatched never decrease.
NonDecreasingDispatch ==
    \A i, j \in DOMAIN log : i < j => log[i].at <= log[j].at

\* an entry pushed by a handler after an earlier dispatch was itself dispatched
NonDecreasingWitness ==
    \E i, j \in DOMAIN log :
        /\ i < j
        /\ log[j].kind = "Event" /\ log[j].from # External
        /\ log[j].after >= i

\* C5: no model has more than one outstanding borrow, and a borrow of a model
\* whose slot is taken returns ModelMissing and changes neither the slot nor
\* the guards.
BorrowExclusive ==
    /\ [](\A id \in AllIds : guards[id] <= 1 /\ (taken[id] <=> guards[id] = 1))
    /\ [][\A id \in AllIds :
            (bres'.op = "borrow" /\ bres'.id = id /\ taken[id])
            => (bres'.res = ModelMissing /\ taken' = taken /\ guards' = guards)]_vars

\* a borrow was refused while a guard for the same model was alive
BorrowRefused ==
    /\ bres.op = "borrow" /\ bres.res = ModelMissing
    /\ taken[bres.id] /\ guards[bres.id] = 1

\* C6: restoring an erased event as its own type yields the box the event
\* held, alive, with the payload it held.
RoundTrip ==
    (evres.op = "restore" /\ evres.ok)
    => \A env \in evres.env :
          evres.data = env.orig.box /\ evres.live /\ evres.val = env.orig.val

\* C7: a restore as another type returns the envelope as it was, and a later
\* restore of that envelope as its own type yields the original payload.
MismatchKeepsEnvelope ==
    /\ (evres.op = "restore" /\ ~evres.ok)
       => \A env \in evres.env : env \in envelopes /\ env.type_id # evres.asked
    /\ (evres.op = "restore" /\ evres.ok)
       => \A env \in evres.env :
             env.failed =>
                (evres.data = env.orig.box /\ evres.live /\ evres.val = env.orig.val)

\* the conditions validate() is to establish for a route
ValidRoute(r) ==
    /\ models[r.from.model] # NoModel
    /\ models[r.to.model] # NoModel
    /\ output_type_id(models[r.from.model], r.from.connector) # NoType
    /\ input_type_id(models[r.to.model], r.to.connector) # NoType
    /\ output_type_id(models[r.from.model], r.from.connector)
         = input_type_id(models[r.to.model], r.to.connector)

\* C8: when validate() has returned success, both models of every route are
\* registered, its origin is a declared output, its destination a declared
\* input, and the two payload types are equal.
ValidatedRoutesSound ==
    vres = Ok => \A r \in RouteSet(routes) : ValidRoute(r)

\* validate() succeeded on a system that has routes
ValidatedWithRoutes ==
    vres = Ok /\ validated /\ RouteSet(routes) # {}

\* the error kinds of the conditions a route violates
ViolatedKinds(r) ==
    LET ma == models[r.from.model]
        mb == models[r.to.model]
        ot == output_type_id(ma, r.from.connector)
        it == input_type_id(mb, r.to.connector)
    IN  (IF ma = NoModel \/ mb = NoModel THEN {"MissingModel"} ELSE {})
        \cup (IF (ma # NoModel /\ ot = NoType) \/ (mb # NoModel /\ it = NoType)
              THEN {"MissingConnector"} ELSE {})
        \cup (IF ot # NoType /\ it # NoType /\ ot # it
              THEN {"ConnectionTypeMismatch"} ELSE {})

\* C9: when a route violates a condition, validate() fails with the kind of
\* a violated condition: MissingModel for an unregistered endpoint model,
\* MissingConnector for an undeclared connector, ConnectionTypeMismatch for
\* unequal payload types (or InvalidConnectorModel for a mispaired handler).
ValidateErrorKinds ==
    (vres # NoRes /\ \E r \in RouteSet(routes) : ViolatedKinds(r) # {})
    => vres.kind \in UNION {ViolatedKinds(r) : r \in RouteSet(routes)}
                     \cup {"InvalidConnectorModel"}

\* C10: when a registered model has an input handler declared for another
\* model type, and no route violates another condition, validate() fails
\* with InvalidConnectorModel.
MispairedRejected ==
    (/\ vres # NoRes
     /\ \E id \in AllIds : models[id] # NoModel /\ FirstMismatched(models[id]) # 0
     /\ \A r \in RouteSet(routes) : ViolatedKinds(r) = {})
    => vres.kind = "InvalidConnectorModel"

\* C11: validate() on a validated system returns success and leaves the flag,
\* the models, the routes and the adjacency cache as they were, and every
\* push_model or push_route leaves the system not validated.
ValidateIdempotent ==
    [][/\ (vres' # NoRes /\ validated)
          => (vres' = Ok /\ UNCHANGED <<validated, models, routes, route_cache>>)
       /\ vres' = NoRes => ~validated']_vars

\* validate() was called on a system that was validated already
ValidatedAgain ==
    vskip /\ validated /\ vres = Ok /\ RouteSet(routes) # {}

\* C12: after a successful validate() no adjacency entry holds two outgoing
\* routes with the same origin connector, and every outgoing route it holds
\* is the route the table now has for that origin.
AdjacencyUnique ==
    vres = Ok =>
        \A id \in AllIds :
            /\ \A r1, r2 \in route_cache[id].outputs :
                  r1.from.connector = r2.from.connector => r1 = r2
            /\ \A r \in route_cache[id].outputs : routes[r.from] = r.to

\* validate() succeeded on a table of two routes, one of them outgoing from a
\* model that has an adjacency entry
AdjacencyWitness ==
    /\ vres = Ok
    /\ Cardinality(RouteSet(routes)) = 2
    /\ \E id \in AllIds : route_cache[id].present /\ route_cache[id].outputs # {}

\* C13: Simulation::new validates first; when validation fails it returns the
\* error with no init called and nothing scheduled or dispatched; when it
\* succeeds every registered model gets init exactly once, with a context at
\* the initial time, before any entry is dispatched.
InitOncePerModel ==
    /\ pc = "failed" =>
          /\ simres = vres /\ simres # Ok
          /\ \A id \in AllIds : inits[id] = 0
          /\ log = << >> /\ nextSeq = 0 /\ Keys(scheduled) = {}
    /\ \A id \in AllIds : inits[id] <= 1
    /\ ctx.kind = "init" => (ctx.time = initial_time /\ log = << >> /\ vres = Ok)
    /\ (log # << >> \/ pc \in {"idle", "loop", "drain"}) =>
          \A id \in AllIds : inits[id] = (IF models[id] # NoModel THEN 1 ELSE 0)
\* an entry is dispatched in a simulation that started at time 1 with two models
InitOnceWitness ==
    /\ log # << >>
    /\ initial_time = 1
    /\ inits["p1"] = 1 /\ inits["p2"] = 1

UpdateCalled ==
    [][(/\ pc = "drain" /\ bucket # << >>
        /\ Head(bucket).kind = "Internal"
        /\ models[Head(bucket).model] # NoModel
        /\ log' = Append(log, Head(bucket)))
       => /\ pc' = "handler"
          /\ ctx'.on_model = Head(bucket).model
          /\ taken'[Head(bucket).model]]_vars

\* the sequence numbers of the entries of a bucket, and of all pending entries
SeqsOf(q) == {q[i].seq : i \in DOMAIN q}
PendingSeqs == UNION {SeqsOf(scheduled[t]) : t \in DOMAIN scheduled} \cup SeqsOf(bucket)

\* a running input handler is the one of the entry dispatched last, at the
\* time of that entry; no entry is in the log twice or both logged and pending
HandlerOfLast ==
    /\ (pc = "handler" /\ ctx.kind = "input") =>
          LET e == log[Len(log)]
          IN  /\ e.kind = "Event"
              /\ ctx.on_model = e.model /\ taken[e.model]
              /\ input_type_id(models[e.model], e.connector) = e.ty
              /\ ctx.time = e.at /\ time = e.at
    /\ \A i, j \in DOMAIN log : log[i].seq = log[j].seq => i = j
    /\ PendingSeqs \cap SeqsOf(log) = {}

\* C16: an Event entry scheduled at time t for (m, c) is delivered once, to the
\* input handler of connector c of model m and to no other, when the clock
\* equals t: a running input handler is the one of the entry dispatched last,
\* no entry is dispatched twice or again after its dispatch, and an entry
\* leaves the queue undispatched only in a step where run_until returns an
\* error.
DeliveredOnce ==
    [][/\ HandlerOfLast'
       /\ \/ (pc = "drain" /\ pc' = "idle" /\ simres' \notin {NoRes, Ok})
          \/ PendingSeqs' \cup SeqsOf(log') =
                PendingSeqs \cup SeqsOf(log) \cup (nextSeq .. nextSeq' - 1)]_vars
\* the handler of p1::receive runs on an event a model pushed for time 1,
\* after an earlier dispatch
DeliveredWitness ==
    /\ pc = "handler" /\ ctx.kind = "input"
    /\ Len(log) >= 2
    /\ log[Len(log)].at = 1
    /\ log[Len(log)].from # External
    /\ log[Len(log)].model = "p1" /\ log[Len(log)].connector = "receive"

\* C17: an error returned by a callback is never swallowed: when init returns
\* an error Simulation::new fails with it, and when an input handler returns
\* an error run_until returns it and dispatches nothing more.
CallbackErrorPropagates ==
    [][hret' = HandlerErr =>
          /\ simres' = HandlerErr
          /\ pc' = (IF ctx.kind = "init" THEN "failed" ELSE "idle")]_vars

\* the entry the scheduling call of this step has put in the queue
Enqueued == scheduled'[call'.time][Len(scheduled'[call'.time])]

\* C18: a push, without an explicit target, on an output connector that no
\* route starts from returns success and leaves the queue as it was.
UnwiredPushIsNoop ==
    [][(/\ call'.op = "ctx.push_event"
        /\ call'.target = NoPath
        /\ ~IsWired(ctx.on_model, call'.src))
       => (call'.res = Ok /\ UNCHANGED scheduled)]_vars

\* C19: a push by model m on output connector c without an explicit target
\* that enqueues an entry gives it the origin (m, c) and the destination of
\* the route that starts at (m, c) and of no other route, and such a push on
\* a wired connector for a time not in the past does enqueue one.
PushFollowsRoute ==
    [][(call'.op = "ctx.push_event" /\ call'.target = NoPath) =>
          /\ scheduled' # scheduled =>
                /\ Enqueued.from = ConnectorPath(ctx.on_model, call'.src)
                /\ ConnectorPath(Enqueued.model, Enqueued.connector) = routes[Enqueued.from]
          /\ (IsWired(ctx.on_model, call'.src) /\ call'.time >= time) =>
                (call'.res = Ok /\ scheduled' # scheduled)]_vars

\* the models whose slot is taken
TakenIds == {id \in AllIds : taken[id]}

\* C20: dispatch is never nested: a callback runs on one borrowed model at a
\* time, an entry is dispatched only when no callback runs and no model is
\* borrowed, what a running callback does only enqueues, and a dispatch fails
\* with ModelNotFound only for an id that is not registered, never for a model
\* whose borrow a handler held.
NoNestedDispatch ==
    [][/\ IF pc' = "handler"
          THEN ctx' # NoCtx /\ TakenIds' = {ctx'.on_model}
          ELSE ctx' = NoCtx /\ TakenIds' = {}
       /\ log' # log => (pc = "drain" /\ ctx = NoCtx /\ TakenIds = {})
       /\ (pc = "handler" /\ pc' = "handler") =>
             UNCHANGED <<ctx, taken, log, bucket, time>>
       /\ (log' # log /\ pc' = "idle" /\ simres'.kind = "ModelNotFound") =>
             models[Head(bucket).model] = NoModel]_vars
\* the handler of p1::receive runs on an event that p1 pushed to itself, for
\* the current time, from the handler of an earlier entry of the same time
SelfPushDelivered ==
    /\ pc = "handler" /\ ctx.kind = "input"
    /\ LET e == log[Len(log)]
       IN  /\ e.kind = "Event"
           /\ e.from # External /\ e.from.model = e.model
           /\ e.after >= 1
           /\ log[e.after].model = e.model /\ log[e.after].at = e.at
           /\ log[e.after].kind = "Event"

\* the entries of the bucket of time t, and a bucket in scheduling order
EntriesAt(sch, t) == {sch[t][i] : i \in DOMAIN sch[t]}
InSchedulingOrder(b) == \A i, j \in DOMAIN b : i < j => b[i].seq < b[j].seq
AllPending(sch) == UNION {EntriesAt(sch, t) : t \in DOMAIN sch}

\* C21: after cancel_updates(m) without bounds no bucket holds an Internal
\* entry of m; the Internal entries of the other models and the Event entries,
\* those for m included, are pending at the time and in the order they had;
\* and with no update of m pending the call changes nothing.
CancelRemovesUpdates ==
    [][(call'.op = "cancel_updates" /\ log' = log) =>
          /\ time' = time
          /\ \A t \in DOMAIN scheduled' :
                /\ \A e \in EntriesAt(scheduled', t) : ~IsUpdateOf(e, call'.src)
                /\ EntriesAt(scheduled', t) =
                      {e \in EntriesAt(scheduled, t) : ~IsUpdateOf(e, call'.src)}
                /\ InSchedulingOrder(scheduled'[t])
                /\ Len(scheduled'[t]) = Cardinality(EntriesAt(scheduled', t))
          /\ (\A e \in AllPending(scheduled) : ~IsUpdateOf(e, call'.src)) =>
                scheduled' = scheduled]_vars
\* cancel_updates(p1) took updates of p1 out of a queue that still holds an
\* event for p1 and an update of p2
CancelWitness ==
    /\ call.op = "cancel_updates" /\ call.src = "p1"
    /\ log = << >>
    /\ PendingSeqs # 0 .. nextSeq - 1
    /\ \E e \in AllPending(scheduled) : e.kind = "Event" /\ e.model = "p1"
    /\ \E e \in AllPending(scheduled) : IsUpdateOf(e, "p2")

\* the instant t lies between the two bounds
Inside(bounds, t) ==
    /\ bounds.start.bound = "Included" => bounds.start.t <= t
    /\ bounds.start.bound = "Excluded" => bounds.start.t < t
    /\ bounds.end.bound = "Included" => t <= bounds.end.t
    /\ bounds.end.bound = "Excluded" => t < bounds.end.t

\* no update of the model of the last cancellation is pending or was
\* dispatched since, at a time inside the bounds of that cancellation
NoneInsideSince ==
    call.op = "cancel_updates_bounded" =>
        /\ \A e \in AllPending(scheduled) :
              IsUpdateOf(e, call.src) => ~Inside(call.bounds, e.at)
        /\ \A i \in call.logged + 1 .. Len(log) :
              IsUpdateOf(log[i], call.src) => ~Inside(call.bounds, log[i].at)

\* C22: cancel_updates_bounded(m, bounds) removes the Internal entries of m
\* whose time the bounds include and nothing else, every bucket outside the
\* bounds staying as it was, so that the steps that follow dispatch updates of
\* m only at times outside the bounds (3 and 4 for updates at 1, 2, 3, 4 and
\* the bounds 1..=2).
BoundedCancelExact ==
    [][/\ NoneInsideSince'
       /\ (call'.op = "cancel_updates_bounded" /\ log' = log) =>
             /\ time' = time
             /\ \A t \in DOMAIN scheduled' :
                   IF Inside(call'.bounds, t)
                   THEN /\ EntriesAt(scheduled', t) =
                             {e \in EntriesAt(scheduled, t) : ~IsUpdateOf(e, call'.src)}
                        /\ InSchedulingOrder(scheduled'[t])
                        /\ Len(scheduled'[t]) = Cardinality(EntriesAt(scheduled', t))
                   ELSE scheduled'[t] = scheduled[t]]_vars
\* four updates of p1 were scheduled, the bounds 1..=2 were cancelled at time 0
\* before any step, and the steps since have dispatched updates of p1 at 3 and 4
BoundedCancelWitness ==
    /\ call.op = "cancel_updates_bounded" /\ call.src = "p1"
    /\ call.bounds = TimeBounds(Included(1), Included(2))
    /\ call.logged = 0
    /\ nextSeq = 4 /\ time = 4
    /\ AllPending(scheduled) = {}
    /\ Len(log) = 2
    /\ IsUpdateOf(log[1], "p1") /\ log[1].at = 3
    /\ IsUpdateOf(log[2], "p1") /\ log[2].at = 4

\* the times at which connector c of model m was dispatched an event
DispatchTimes(l, m, c) ==
    {l[i].at : i \in {j \in DOMAIN l : l[j].kind = "Event" /\ l[j].model = m
                                        /\ l[j].connector = c}}

\* the run of the scenario: one external signal, to p1::receive at 0.5, and
\* every update scheduled 0.5 after the dispatch that asked for it
PingPongRun(l, sch) ==
    /\ initial_time = 0
    /\ \A e \in AllPending(sch) : e.from # External
    /\ \A i \in DOMAIN l :
          /\ (l[i].kind = "Event" /\ l[i].from = External) =>
                (i = 1 /\ l[i].at = 5 /\ l[i].model = "p1" /\ l[i].connector = "receive")
          /\ l[i].kind = "Internal" => (l[i].after >= 1 /\ l[i].at = l[l[i].after].at + 5)
    /\ \A e \in AllPending(sch) :
          e.kind = "Internal" => (e.after >= 1 /\ e.at = l[e.after].at + 5)
    /\ l # << >>

\* C23: in the ping-pong scenario (send delay 0.5, one external signal to
\* p1::receive at 0.5), when run_until(2.1) returns p2::receive was dispatched
\* at 1.0 and p1::receive at 0.5, 1.5 and 2.0.
PingPongTimes ==
    [][(/\ pc = "loop" /\ pc' = "idle" /\ simres' = Ok
        /\ max_time = 21
        /\ PingPongRun(log', scheduled'))
       => /\ DispatchTimes(log', "p2", "receive") = {10}
          /\ DispatchTimes(log', "p1", "receive") = {5, 15, 20}]_vars

\* the events of the log dispatched to connector c of model m, in order
DispatchedTo(l, m, c) ==
    LET hit(e) == e.kind = "Event" /\ e.model = m /\ e.connector = c
    IN  SelectSeq(l, hit)

\* C24: the Queue emits on `out` the payloads it received on `in` in their
\* order of arrival, one per pop signal, as events of the type declared for
\* `out`: the k-th pop dispatched to a Queue that has received at least k
\* payloads appends to the bucket of the current time one event from `out`
\* carrying the k-th payload sent to `in` (7, 8, 9 in the scenario).
QueueEmitsInOrder ==
    [][(/\ pc = "handler" /\ pc' = "drain"
        /\ models[ctx.on_model] = "Queue"
        /\ Delivered.connector = "pop"
        /\ Len(DispatchedTo(log, ctx.on_model, "pop"))
              <= Len(DispatchedTo(log, ctx.on_model, "in")))
       => LET m == ctx.on_model
              k == Len(DispatchedTo(log, m, "pop"))
              b == scheduled'[ctx.time]
          IN  /\ call'.res = Ok
              /\ Len(b) = Len(scheduled[ctx.time]) + 1
              /\ b[Len(b)].from = ConnectorPath(m, "out")
              /\ b[Len(b)].ty = output_type_id("Queue", "out")
              /\ b[Len(b)].val = DispatchedTo(log, m, "in")[k].val]_vars

\* C25: run() runs until the system is inert: whenever run() returns
\* successfully the scheduler holds no pending entry, whatever the times, up to
\* and including Time::MAX, at which entries were scheduled.
RunDrainsAll ==
    [][(pc = "loop" /\ max_time = TimeMAX /\ pc' = "idle" /\ simres' = Ok)
       => Keys(scheduled') = {}]_vars

\* C26: in every reachable state of the scheduler every pending entry has a
\* time greater than or equal to current_time: no sequence of schedule, pop
\* and dispatch operations leaves an entry in the past of the clock.
NoPendingInPast ==
    \A t \in DOMAIN scheduled : \A i \in DOMAIN scheduled[t] :
        t >= time /\ scheduled[t][i].at >= time
\* the clock has advanced by a pop, an entry of that bucket was dispatched and
\* an entry scheduled since is pending
NoPendingInPastWitness ==
    /\ time > initial_time
    /\ \E i \in DOMAIN log : log[i].at = time
    /\ \E e \in AllPending(scheduled) : e.after >= 1

\* the step called Scheduler::schedule (through schedule_change or
\* schedule_event, by the client or by a callback) with an insertion time
\* that is not before the clock
ScheduledNotBefore ==
    /\ call'.op \in {"schedule_change", "schedule_event", "ctx.schedule_change",
                     "ctx.push_event"}
    /\ call'.res.kind # "MissingEventTarget"
    /\ call'.time >= time

\* C27: a scheduling call with a time greater than or equal to current_time
\* (equality included) succeeds, appends exactly one entry at the tail of the
\* bucket of that time, and leaves the clock, every other bucket and the order
\* of the entries already pending unchanged.
ScheduleAppendsOne ==
    [][ScheduledNotBefore =>
          /\ call'.res = Ok
          /\ time' = time
          /\ Len(scheduled'[call'.time]) = Len(scheduled[call'.time]) + 1
          /\ SubSeq(scheduled'[call'.time], 1, Len(scheduled[call'.time]))
                = scheduled[call'.time]
          /\ scheduled'[call'.time][Len(scheduled'[call'.time])].seq = nextSeq
          /\ \A t \in DOMAIN scheduled \ {call'.time} : scheduled'[t] = scheduled[t]
          /\ bucket' = bucket]_vars
\* the last call scheduled at the current time, into a bucket that held an
\* entry already, while a later bucket was pending
ScheduleAppendsWitness ==
    /\ call.op \in {"schedule_change", "schedule_event", "ctx.schedule_change",
                    "ctx.push_event"}
    /\ call.res = Ok
    /\ call.time = time
    /\ Len(scheduled[time]) >= 2
    /\ scheduled[time][Len(scheduled[time])].seq = nextSeq - 1
    /\ \E t \in Keys(scheduled) : t > time

\* e was scheduled at the time of the entry dispatched last before it was
\* scheduled: at the current time, by the callback of that entry while its
\* bucket was drained (or by the client once that run had returned)
AtCurrentTime(e, l) == e.after >= 1 /\ l[e.after].at = e.at

\* C28: an entry that a handler schedules at the current time t while the
\* bucket of t is drained is dispatched after every entry that was already in
\* that bucket and before any entry with a time greater than t, and the clock
\* still equals t when it is dispatched.
SameTimeAfterBucket ==
    [][(/\ pc = "drain" /\ bucket # << >>
        /\ log' = Append(log, Head(bucket))
        /\ AtCurrentTime(Head(bucket), log))
       => LET e == Head(bucket)
          IN  /\ time = e.at /\ time' = e.at
              /\ \A j \in DOMAIN log : log[j].at <= e.at
              /\ \A x \in AllPending(scheduled) \cup EntriesAt([b \in {0} |-> bucket], 0) :
                    x.at = e.at => x.seq >= e.seq
              /\ \A x \in AllPending(scheduled) : x.at >= e.at]_vars
\* a callback pushed an event at the current time while another entry of the
\* bucket was waiting; that entry was dispatched next, then the event pushed
SameTimeWitness ==
    \E i \in DOMAIN log :
        /\ log[i].kind = "Event" /\ log[i].from # External
        /\ AtCurrentTime(log[i], log)
        /\ log[i].after = i - 2
        /\ log[i - 1].at = log[i].at /\ log[i - 1].seq < log[i].seq
        /\ time = log[i].at

\* C29: whenever validate(), Simulation::new, route_event or run_until has
\* returned, with success or with any error (unknown model or connector, type
\* mismatch, handler error, validation failure), no model slot is left taken:
\* every borrow made during the call has been released.
NoSlotLeftTaken ==
    pc \in {"init", "failed", "idle", "loop", "drain"}
       => \A id \in AllIds : ~taken[id] /\ guards[id] = 0
\* run_until returned the error of route_event on an entry, after an earlier
\* event had been dispatched under a borrow of its model
NoSlotLeftTakenWitness ==
    /\ pc = "idle"
    /\ simres.kind \in {"UnknownModelConnector", "InvalidEventType"}
    /\ simres.model \in ModelIds \/ simres.kind = "InvalidEventType"
    /\ Len(log) >= 2
    /\ log[Len(log) - 1].kind = "Event"
    /\ \A id \in AllIds : ~taken[id]

\* C30: releasing a slot that is not taken fails with SlotOccupied and leaves
\* the slot not taken; releasing a taken slot succeeds and makes the slot
\* borrowable again, so that borrow, release, borrow on the same model
\* succeeds twice.
ReleaseContract ==
    [][/\ (bres'.op = "release" /\ ~taken[bres'.id])
          => (bres'.res = SlotOccupied /\ ~taken'[bres'.id] /\ guards' = guards)
       /\ (bres'.op \in {"release", "drop"} /\ taken[bres'.id])
          => (bres'.res = Ok /\ ~taken'[bres'.id])
       /\ (bres'.op = "borrow" /\ bres'.found /\ bres.op = "drop" /\ bres.id = bres'.id)
          => (bres.res = Ok /\ bres'.res = Ok /\ taken'[bres'.id]
              /\ guards'[bres'.id] = 1)]_vars
\* a release of a free slot was refused while the guard of another model was
\* alive
ReleaseRefused ==
    /\ bres.op = "release" /\ bres.res = SlotOccupied
    /\ ~taken[bres.id] /\ guards[bres.id] = 0
    /\ \E id \in AllIds : taken[id] /\ guards[id] = 1

\* the error route_event has to return for the event e, or Ok
DispatchError(e) ==
    IF models[e.model] = NoModel THEN ModelNotFound(e.model)
    ELSE IF input_type_id(models[e.model], e.connector) = NoType
         THEN UnknownModelConnector(e.model, e.connector)
    ELSE IF e.ty # input_type_id(models[e.model], e.connector) THEN InvalidEventType
    ELSE Ok

\* C31: an event is accepted at scheduling time whatever its destination and
\* payload type, and its dispatch fails without invoking a handler and without
\* changing any model's state: with ModelNotFound when the destination model is
\* not registered, UnknownModelConnector when that model has no such input,
\* InvalidEventType when the payload type is not the one the handler accepts.
DispatchRejects ==
    [][/\ (call'.op = "schedule_event" /\ call'.time >= time) => call'.res = Ok
       /\ (/\ pc = "drain" /\ bucket # << >>
           /\ Head(bucket).kind = "Event"
           /\ log' = Append(log, Head(bucket))
           /\ DispatchError(Head(bucket)) # Ok)
          => /\ pc' = "idle"
             /\ simres' = DispatchError(Head(bucket))
             /\ ctx' = NoCtx /\ hret' = NoRes
             /\ taken' = taken /\ guards' = guards
             /\ queue' = queue /\ inits' = inits
             /\ scheduled' = scheduled]_vars
\* run_until returned InvalidEventType for an event sent to a declared input
\* of a registered model that accepts another payload type
DispatchRejectsWitness ==
    /\ pc = "idle" /\ simres = InvalidEventType
    /\ log # << >>
    /\ DispatchError(log[Len(log)]) = InvalidEventType
    /\ \A id \in AllIds : ~taken[id]

\* C32: the validated flag is true only if the most recent validate() since
\* the last push_model/push_route returned success: a validate() that fails
\* leaves the flag false, and a second validate() on the unchanged system fails
\* again instead of returning success.
FlagOnlyAfterSuccess ==
    /\ [](validated => vres = Ok)
    /\ [][/\ (vres' \notin {NoRes, Ok}) => ~validated'
          /\ (/\ vres \notin {NoRes, Ok} /\ vres' # NoRes
              /\ models' = models /\ routes' = routes)
             => (vres' # Ok /\ ~validated')]_vars
\* a validate() failed on a system with two routes, and left the flag false
FlagOnlyAfterSuccessWitness ==
    /\ vres \notin {NoRes, Ok}
    /\ ~validated
    /\ Cardinality(RouteSet(routes)) = 2

\* C33: after a successful validate() the adjacency cache has one entry per
\* registered model m, whose inputs are exactly the routes with destination
\* model m and whose outputs are exactly the routes with origin model m;
\* nothing an earlier validation computed for other routes or models is left.
CacheExact ==
    (validated /\ vres = Ok) =>
        \A id \in AllIds :
            IF models[id] = NoModel THEN route_cache[id] = NoAdj
            ELSE /\ route_cache[id].present
                 /\ route_cache[id].inputs = {r \in RouteSet(routes) : r.to.model = id}
                 /\ route_cache[id].outputs = {r \in RouteSet(routes) : r.from.model = id}
\* validate() succeeded on a system in which a model has an incoming and an
\* outgoing route
CacheExactWitness ==
    /\ validated /\ vres = Ok
    /\ \E id \in AllIds : route_cache[id].inputs # {} /\ route_cache[id].outputs # {}

\* C34: validation accepts a route whose origin and destination are connectors
\* of the same registered model when both are declared and their payload types
\* are equal: validate() on a system all of whose routes meet the conditions,
\* one of them from a model to itself, returns success.
SelfRouteAccepted ==
    (/\ vres # NoRes
     /\ \A r \in RouteSet(routes) :
           ValidRoute(r) /\ FirstMismatched(models[r.to.model]) = 0
     /\ \E r \in RouteSet(routes) : r.from.model = r.to.model)
    => vres = Ok

\* C35: when the dispatch of an entry fails during run_until, the clock has
\* advanced to the time of that entry's bucket and the entries of the bucket
\* not yet dispatched are discarded: they are not in the queue when run_until
\* returns the error and no later call dispatches them (an entry is only ever
\* dispatched from the head of the popped bucket, which only holds what a pop
\* took from the queue), while the entries of later buckets stay pending.
FailureDropsBucket ==
    [][/\ (pc = "drain" /\ pc' = "idle")
          => /\ bucket # << >>
             /\ log' = Append(log, Head(bucket))
             /\ simres' \notin {Ok, NoRes}
             /\ time = Head(bucket).at /\ time' = time
             /\ bucket' = << >>
             /\ scheduled' = scheduled
             /\ \A i \in 2 .. Len(bucket) : bucket[i] \notin AllPending(scheduled')
       /\ log' # log
          => /\ pc = "drain" /\ bucket # << >>
             /\ log' = Append(log, Head(bucket))
             /\ \A i \in DOMAIN log : log[i].seq # Head(bucket).seq
       /\ (pc = "loop" /\ pc' = "drain")
          => /\ bucket = << >>
             /\ bucket' = scheduled[time']
             /\ scheduled'[time'] = << >>]_vars
\* run_until returned the error of an entry while another entry of its bucket
\* had not been dispatched; that entry is neither pending nor dispatched, and
\* an entry of a later bucket is pending
FailureDropsWitness ==
    /\ pc = "idle" /\ simres \notin {Ok, NoRes}
    /\ log # << >>
    /\ \E n \in 0 .. nextSeq - 1 :
          /\ \A e \in AllPending(scheduled) : e.seq # n
          /\ \A i \in DOMAIN log : log[i].seq # n
    /\ \E e \in AllPending(scheduled) : e.at > time

BoundsAcceptOrdered ==
    /\ call.op = "TimeBounds::new" =>
          call.res = IF call.args[2] >= call.args[1]
                     THEN TimeBounds(Included(call.args[1]), Excluded(call.args[2]))
                     ELSE Panicked
    /\ call.op = "TimeBounds::new_inclusive" =>
          call.res = IF call.args[2] >= call.args[1]
                     THEN TimeBounds(Included(call.args[1]), Included(call.args[2]))
                     ELSE Panicked

\* C40: subtraction on simulated time undoes addition, (t + d) - d = t and
\* (a + d) - d = a, and the operator x - d yields what x -= d leaves in x.
SubInvertsAdd ==
    call.op \in {"Time", "TimeDelta"} =>
       /\ call.res.add_sub = call.args[1]
       /\ call.res.sub = call.res.sub_assign

====
